---- MODULE Spec2Model ----
(***************************************************************************)
(* Hierarchical generate-validate-repair engine of the strategic           *)
(* consultant agent: the MECE validators (tools/mece_validator.py), the    *)
(* failure memory (tools/validation_memory.py), the two validation-wrapped *)
(* batched generators (tools/llm_tree_generators.py) and the LLM path of   *)
(* generate_hypothesis_tree (tools/hypothesis_tree.py).                    *)
(*                                                                         *)
(* Python strings are TLA+ strings, handled character by character with    *)
(* Len, SubSeq, Head, Tail and \o.  A Python dict is a sequence of entries *)
(* with pairwise distinct keys, in insertion order.  A leaf is a function  *)
(* whose DOMAIN is the set of fields the leaf carries.                     *)
(***************************************************************************)
EXTENDS Integers, Sequences, FiniteSets, TLC

(***************************************************************************)
(* Bounds of the model                                                     *)
(***************************************************************************)
\* max_attempts ranges over 1..MaxAttemptsBound
MaxAttemptsBound == 3
\* an unreliable oracle gives at most MaxFaults responses that are not a
\* well-formed set of good content
MaxFaults == 2

(***************************************************************************)
(* Python string primitives                                                *)
(***************************************************************************)
UpperChars == "ABCDEFGHIJKLMNOPQRSTUVWXYZ"
LowerChars == "abcdefghijklmnopqrstuvwxyz"

Chars(s) == { SubSeq(s, i, i) : i \in 1..Len(s) }
PositionIn(s, c) == CHOOSE i \in 1..Len(s) : SubSeq(s, i, i) = c

LowerTable == [c \in Chars(UpperChars) |->
                 SubSeq(LowerChars, PositionIn(UpperChars, c), PositionIn(UpperChars, c))]
UpperTable == [c \in Chars(LowerChars) |->
                 SubSeq(UpperChars, PositionIn(LowerChars, c), PositionIn(LowerChars, c))]

\* str.lower() on one character
LowerChar(c) == IF c \in DOMAIN LowerTable THEN LowerTable[c] ELSE c

\* str.upper() on one character
UpperChar(c) == IF c \in DOMAIN UpperTable THEN UpperTable[c] ELSE c

RECURSIVE Lower(_)
Lower(s) == IF s = "" THEN "" ELSE LowerChar(Head(s)) \o Lower(Tail(s))

RECURSIVE Upper(_)
Upper(s) == IF s = "" THEN "" ELSE UpperChar(Head(s)) \o Upper(Tail(s))

\* Python's  k in s  on strings
Contains(s, k) ==
  \E i \in 1..(Len(s) - Len(k) + 1) : SubSeq(s, i, i + Len(k) - 1) = k

\* str.replace(" ", "_")
RECURSIVE SpacesToUnderscores(_)
SpacesToUnderscores(s) ==
  IF s = "" THEN ""
  ELSE (IF Head(s) = " " THEN "_" ELSE Head(s)) \o SpacesToUnderscores(Tail(s))

\* str.split(): the maximal runs of non-blank characters, in order
RECURSIVE SplitFrom(_, _)
SplitFrom(s, cur) ==
  IF s = "" THEN (IF cur = "" THEN << >> ELSE << cur >>)
  ELSE IF Head(s) = " "
       THEN (IF cur = "" THEN << >> ELSE << cur >>) \o SplitFrom(Tail(s), "")
       ELSE SplitFrom(Tail(s), cur \o Head(s))

Split(s) == SplitFrom(s, "")

\* " ".join(words)
RECURSIVE Join(_)
Join(words) ==
  IF words = << >> THEN ""
  ELSE IF Len(words) = 1 THEN words[1]
  ELSE words[1] \o " " \o Join(Tail(words))

\* set(label.split())
WordSet(s) == LET words == Split(s) IN { words[i] : i \in 1..Len(words) }

\* re.sub(re.escape(pattern), "", s, flags=re.IGNORECASE), the pattern in lower case
RECURSIVE RemoveLowered(_, _)
RemoveLowered(s, lowered) ==
  IF Len(s) < Len(lowered) THEN s
  ELSE IF /\ LowerChar(Head(s)) = Head(lowered)
          /\ Lower(SubSeq(s, 1, Len(lowered))) = lowered
       THEN RemoveLowered(SubSeq(s, Len(lowered) + 1, Len(s)), lowered)
       ELSE Head(s) \o RemoveLowered(Tail(s), lowered)


(***************************************************************************)
(* _cleanup_label                                                          *)
(***************************************************************************)
verbose_patterns ==
  << "Improvement in ", "Reduction in ", "Enhancement of ", "Assessment of ",
     "Evaluation of ", "Analysis of ",
     " with Computer Vision", " Requiring Medical Intervention",
     " Due to Fall Response", " from Direct Incident Response",
     " Based on Real-time Needs",
     " and Scalability Potential", " and Accuracy" >>

\* the patterns as re.IGNORECASE compares them
RECURSIVE LowerAll(_)
LowerAll(patterns) ==
  IF patterns = << >> THEN << >> ELSE << Lower(Head(patterns)) >> \o LowerAll(Tail(patterns))

lowered_patterns == LowerAll(verbose_patterns)

\* the loop over verbose_patterns: a pattern that does not occur in the
\* string (lowered is the string in lower case) leaves it as it is
RECURSIVE RemovePatterns(_, _, _)
RemovePatterns(s, lowered, i) ==
  IF i > Len(lowered_patterns) THEN s
  ELSE IF Contains(lowered, lowered_patterns[i])
       THEN LET cleaned == RemoveLowered(s, lowered_patterns[i])
            IN  RemovePatterns(cleaned, Lower(cleaned), i + 1)
       ELSE RemovePatterns(s, lowered, i + 1)

_cleanup_label(label, max_words) ==
  LET removed   == RemovePatterns(label, Lower(label), 1)
      words1    == Split(removed)
      truncated == IF Len(words1) > max_words
                   THEN Join(SubSeq(words1, 1, max_words)) ELSE removed
      words2    == Split(truncated)
      trimmed   == IF words2 # << >> /\ Lower(words2[Len(words2)]) \in {"and", "or", "&"}
                   THEN Join(SubSeq(words2, 1, Len(words2) - 1)) ELSE truncated
  IN  Join(Split(trimmed))

(***************************************************************************)
(* Python dicts as sequences of entries                                    *)
(***************************************************************************)
DictKeys(d) == { d[i].key : i \in 1..Len(d) }

DictGet(d, k) == d[CHOOSE i \in 1..Len(d) : d[i].key = k]

\* d[k] = v : overwrite in place, or append
DictPut(d, k, v) ==
  IF k \in DictKeys(d)
  THEN [i \in 1..Len(d) |-> IF d[i].key = k THEN v ELSE d[i]]
  ELSE Append(d, v)

\* dict.get(field, default) on a record-like function
Get(rec, field, default) == IF field \in DOMAIN rec THEN rec[field] ELSE default

\* the index pairs (i, j), i < j, in the order of the nested for loops
OrderedPairs(n) ==
  SelectSeq([k \in 1..(n * n) |-> << ((k - 1) \div n) + 1, ((k - 1) % n) + 1 >>],
            LAMBDA p : p[1] < p[2])

RECURSIVE Flatten(_)
Flatten(seqs) == IF seqs = << >> THEN << >> ELSE Head(seqs) \o Flatten(Tail(seqs))

\* faulty variant: every label must contain an indicator
EveryLabelHas(labels, indicators) ==
  \A i \in 1..Len(labels) : \E ind \in indicators : Contains(labels[i], ind)

\* any(ind in label for ind in indicators) for label in labels
AnyLabelHas(labels, indicators) ==
  \E i \in 1..Len(labels) : \E ind \in indicators : Contains(labels[i], ind)

(***************************************************************************)
(* mece_validator.py : topic scope                                         *)
(***************************************************************************)
overlap_keywords ==
  << [base |-> "cost",        related |-> {"financial", "budget", "savings", "roi"}],
     [base |-> "financial",   related |-> {"cost", "revenue", "budget"}],
     [base |-> "risk",        related |-> {"regulatory", "compliance", "legal"}],
     [base |-> "technical",   related |-> {"system", "infrastructure", "capability"}],
     [base |-> "operational", related |-> {"process", "workflow", "capability"}] >>

valid_patterns ==
  { {"desirability", "feasibility", "viability"},
    {"strategic", "operational", "external"},
    {"hypothesis"},
    {"primary", "alternative", "tertiary"} }

L1StopWords == {"risk", "risks", "hypothesis", "the", "and", "or"}

_check_l1_overlaps(tree) ==
  LET label(i)  == Lower(Get(tree[i].val, "label", tree[i].key))
      shown(i)  == tree[i].val["label"]
      common(p) == (WordSet(label(p[1])) \ L1StopWords) \cap (WordSet(label(p[2])) \ L1StopWords)
      keyword(p) ==
        IF Cardinality(common(p)) > 1
        THEN << [kind |-> "keyword", a |-> shown(p[1]), b |-> shown(p[2]), shared |-> common(p)] >>
        ELSE << >>
      semantic(p) ==
        Flatten([k \in 1..Len(overlap_keywords) |->
          IF /\ Contains(label(p[1]), overlap_keywords[k].base)
             /\ \E w \in overlap_keywords[k].related : Contains(label(p[2]), w)
          THEN << [kind |-> "semantic", a |-> shown(p[1]), b |-> shown(p[2])] >>
          ELSE << >>])
      pairs == OrderedPairs(Len(tree))
  IN  IF \E pattern \in valid_patterns :
           \A i \in 1..Len(tree) : \E w \in pattern : Contains(label(i), w)
      THEN << >>
      ELSE Flatten([k \in 1..Len(pairs) |-> keyword(pairs[k]) \o semantic(pairs[k])])

critical_dimensions ==
  << [dimension |-> "regulatory",  triggers |-> {"healthcare", "medical", "pharma", "compliance"}],
     [dimension |-> "competitive", triggers |-> {"market", "launch", "entry", "competitive"}],
     [dimension |-> "customer",    triggers |-> {"product", "service", "user", "customer"}],
     [dimension |-> "technology",  triggers |-> {"technical", "system", "digital", "infrastructure"}],
     [dimension |-> "financial",   triggers |-> {"investment", "budget", "financial", "cost"}] >>

_check_l1_gaps(tree, problem) ==
  LET combined_labels == Join([i \in 1..Len(tree) |-> Lower(Get(tree[i].val, "label", ""))])
      problem_lower   == Lower(problem)
  IN  Flatten([k \in 1..Len(critical_dimensions) |->
        IF /\ \E w \in critical_dimensions[k].triggers : Contains(problem_lower, w)
           /\ ~Contains(combined_labels, critical_dimensions[k].dimension)
        THEN << [kind |-> "gap", dimension |-> critical_dimensions[k].dimension] >>
        ELSE << >>])

L1StrategicKeywords ==
  {"desirability", "feasibility", "viability", "strategic", "market", "competitive", "execution"}
L1TacticalKeywords == {"testing", "deployment", "implementation", "specific", "detailed"}
MaxL1Categories == 6

_check_level_consistency(tree) ==
  LET l1_labels == [i \in 1..Len(tree) |-> Lower(Get(tree[i].val, "label", ""))]
  IN  (IF AnyLabelHas(l1_labels, L1StrategicKeywords) /\ AnyLabelHas(l1_labels, L1TacticalKeywords)
       THEN << [kind |-> "mixed_levels", scope |-> "L1"] >> ELSE << >>)
      \o
      (IF Len(tree) > MaxL1Categories
       THEN << [kind |-> "too_many", scope |-> "L1", count |-> Len(tree)] >> ELSE << >>)

\* faulty variant: a gap fails the structure
validate_mece_structure_strict(structure) ==
  LET tree     == Get(structure, "tree", << >>)
      overlaps == _check_l1_overlaps(tree)
      gaps     == _check_l1_gaps(tree, Get(structure, "problem", ""))
      levels   == _check_level_consistency(tree)
  IN  [is_mece     |-> overlaps = << >> /\ levels = << >> /\ gaps = << >>,
       issues      |-> [overlaps |-> overlaps, level_inconsistencies |-> levels],
       warnings    |-> gaps,
       suggestions |-> << >>]

validate_mece_structure(structure) ==
  LET tree     == Get(structure, "tree", << >>)
      problem  == Get(structure, "problem", "")
      overlaps == _check_l1_overlaps(tree)
      gaps     == _check_l1_gaps(tree, problem)
      levels   == _check_level_consistency(tree)
      is_mece  == ~(overlaps # << >> \/ levels # << >>)
  IN  [is_mece     |-> is_mece,
       issues      |-> [overlaps |-> overlaps, level_inconsistencies |-> levels],
       warnings    |-> gaps,
       suggestions |->
         IF is_mece THEN << "Structure passes MECE validation" >>
         ELSE (IF overlaps # << >> THEN << "clarify boundaries" >> ELSE << >>)
              \o (IF gaps # << >> THEN << "add missing dimensions" >> ELSE << >>)
              \o (IF levels # << >> THEN << "similar abstraction" >> ELSE << >>)]

(***************************************************************************)
(* mece_validator.py : branch scope                                        *)
(***************************************************************************)
L2StopWords == {"the", "and", "or", "of", "to", "in", "for"}
strategic_indicators == {"strategy", "approach", "model", "framework", "structure"}
tactical_indicators  == {"task", "action", "step", "activity", "process"}
MaxL2Branches == 7

validate_l2_branches(tree, l1_key) ==
  IF l1_key \notin DOMAIN tree
  THEN [is_mece |-> FALSE, level |-> "L2", component |-> l1_key,
        issues |-> [overlaps |-> << [kind |-> "not_found", scope |-> l1_key] >>,
                    level_inconsistencies |-> << >>]]
  ELSE
  LET l2_branches == Get(tree[l1_key], "L2", << >>)
      label(i)    == Lower(Get(l2_branches[i].val, "label", l2_branches[i].key))
      shown(i)    == l2_branches[i].val["label"]
      common(p)   == (WordSet(label(p[1])) \ L2StopWords) \cap (WordSet(label(p[2])) \ L2StopWords)
      pairs       == SelectSeq(OrderedPairs(Len(l2_branches)),
                               LAMBDA p : Cardinality(common(p)) > 1)
      overlaps    == [k \in 1..Len(pairs) |->
                        [kind |-> "keyword", a |-> shown(pairs[k][1]),
                         b |-> shown(pairs[k][2]), shared |-> common(pairs[k])]]
      l2_labels   == [i \in 1..Len(l2_branches) |-> Lower(Get(l2_branches[i].val, "label", ""))]
      levels      ==
        (IF AnyLabelHas(l2_labels, strategic_indicators) /\ AnyLabelHas(l2_labels, tactical_indicators)
         THEN << [kind |-> "mixed_levels", scope |-> l1_key] >> ELSE << >>)
        \o
        (IF Len(l2_branches) > MaxL2Branches
         THEN << [kind |-> "too_many", scope |-> l1_key, count |-> Len(l2_branches)] >>
         ELSE << >>)
  IN  IF l2_branches = << >>
      THEN [is_mece |-> FALSE, level |-> "L2", component |-> l1_key,
            issues |-> [overlaps |-> << >>,
                        level_inconsistencies |-> << [kind |-> "no_children", scope |-> l1_key] >>]]
      ELSE [is_mece |-> ~(overlaps # << >> \/ levels # << >>),
            level |-> "L2", component |-> l1_key,
            issues |-> [overlaps |-> overlaps, level_inconsistencies |-> levels]]

(***************************************************************************)
(* mece_validator.py : leaf scope                                          *)
(***************************************************************************)
L3StopWords == {"the", "and", "or", "of", "to", "in", "for", "by"}
\* faulty variant: data_source is not required
required_fields_short == << "label", "question", "metric_type", "target" >>
required_fields == << "label", "question", "metric_type", "target", "data_source" >>
abstract_indicators == {"overall", "general", "broad", "strategic", "high-level"}
MaxL3Leaves == 7

\* f"{l1_key}.{l2_key}"
L3Component(l1_key, l2_key) == l1_key \o "." \o l2_key

validate_l3_leaves(tree, l1_key, l2_key) ==
  LET component == L3Component(l1_key, l2_key)
      failure(overlaps, levels) ==
        [is_mece |-> FALSE, level |-> "L3", component |-> component,
         issues |-> [overlaps |-> overlaps, level_inconsistencies |-> levels,
                     missing_fields |-> << >>]]
  IN
  IF l1_key \notin DOMAIN tree
  THEN failure(<< [kind |-> "not_found", scope |-> l1_key] >>, << >>)
  ELSE IF l2_key \notin DictKeys(Get(tree[l1_key], "L2", << >>))
  THEN failure(<< [kind |-> "not_found", scope |-> component] >>, << >>)
  ELSE
  LET l3_leaves == Get(DictGet(tree[l1_key]["L2"], l2_key).val, "L3", << >>)
      label(i)  == Lower(Get(l3_leaves[i].val, "label", l3_leaves[i].key))
      shown(i)  == l3_leaves[i].val["label"]
      common(p) == (WordSet(label(p[1])) \ L3StopWords) \cap (WordSet(label(p[2])) \ L3StopWords)
      pairs     == SelectSeq(OrderedPairs(Len(l3_leaves)),
                             LAMBDA p : Cardinality(common(p)) > 1)
      overlaps  == [k \in 1..Len(pairs) |->
                      [kind |-> "keyword", a |-> shown(pairs[k][1]),
                       b |-> shown(pairs[k][2]), shared |-> common(pairs[k])]]
      missing(i) == SelectSeq(required_fields,
                      LAMBDA f : f \notin DOMAIN l3_leaves[i].val \/ l3_leaves[i].val[f] = "")
      missing_fields ==
        Flatten([i \in 1..Len(l3_leaves) |->
          IF missing(i) # << >>
          THEN << [kind |-> "missing", leaf |-> Get(l3_leaves[i].val, "label", l3_leaves[i].key),
                   fields |-> missing(i)] >>
          ELSE << >>])
      l3_labels == [i \in 1..Len(l3_leaves) |-> Lower(Get(l3_leaves[i].val, "label", ""))]
      levels    ==
        (IF AnyLabelHas(l3_labels, abstract_indicators)
         THEN << [kind |-> "abstract", scope |-> component] >> ELSE << >>)
        \o
        (IF Len(l3_leaves) > MaxL3Leaves
         THEN << [kind |-> "too_many", scope |-> component, count |-> Len(l3_leaves)] >>
         ELSE << >>)
  IN  IF l3_leaves = << >>
      THEN failure(<< >>, << [kind |-> "no_children", scope |-> component] >>)
      ELSE [is_mece |-> ~(overlaps # << >> \/ levels # << >> \/ missing_fields # << >>),
            level |-> "L3", component |-> component,
            issues |-> [overlaps |-> overlaps, level_inconsistencies |-> levels,
                        missing_fields |-> missing_fields]]

(***************************************************************************)
(* validation_memory.py : ValidationMemory                                 *)
(* The memory is the list self.failures.  The timestamp of a record is the *)
(* wall clock, which no operation reads; it is not part of the record.     *)
(* Every call of get_feedback_prompt and get_failure_count names its       *)
(* component; the level-wide filter of component=None is not used.         *)
(***************************************************************************)
\* faulty variant: a failure equal to one already recorded is not recorded
record_failure_once(failures, level, component, validation_result, iteration) ==
  LET entry == [iteration |-> iteration, level |-> level, component |-> component,
                overlaps |-> Get(Get(validation_result, "issues", << >>), "overlaps", << >>),
                inconsistencies |->
                  Get(Get(validation_result, "issues", << >>), "level_inconsistencies", << >>)]
  IN  IF \E i \in 1..Len(failures) : failures[i] = entry THEN failures
      ELSE Append(failures, entry)

\* faulty variant: the new record takes the place of the earlier ones
record_failure_latest(failures, level, component, validation_result, iteration) ==
  << [iteration |-> iteration, level |-> level, component |-> component,
      overlaps |-> Get(Get(validation_result, "issues", << >>), "overlaps", << >>),
      inconsistencies |->
        Get(Get(validation_result, "issues", << >>), "level_inconsistencies", << >>)] >>

record_failure(failures, level, component, validation_result, iteration) ==
  Append(failures,
    [iteration |-> iteration, level |-> level, component |-> component,
     overlaps |-> Get(Get(validation_result, "issues", << >>), "overlaps", << >>),
     inconsistencies |->
       Get(Get(validation_result, "issues", << >>), "level_inconsistencies", << >>)])

\* faulty variant: the feedback of a level, whatever the component
get_feedback_prompt_level(failures, level, component) ==
  LET relevant == SelectSeq(failures, LAMBDA f : f.level = level)
  IN  [i \in 1..Len(relevant) |->
         [iteration |-> relevant[i].iteration,
          overlaps |-> relevant[i].overlaps,
          inconsistencies |-> relevant[i].inconsistencies]]

\* the feedback text, as the sequence of its per-attempt blocks between the
\* fixed header and footer; the empty sequence is the empty string
get_feedback_prompt(failures, level, component) ==
  LET relevant == SelectSeq(failures,
                    LAMBDA f : f.level = level /\ f.component = component)
  IN  [i \in 1..Len(relevant) |->
         [iteration |-> relevant[i].iteration,
          overlaps |-> relevant[i].overlaps,
          inconsistencies |-> relevant[i].inconsistencies]]

get_failure_count(failures, level, component) ==
  Len(SelectSeq(failures, LAMBDA f : f.level = level /\ f.component = component))

\* self.failures.clear()
clear(failures) == << >>

(***************************************************************************)
(* Scaffolds (external input of generate_hypothesis_tree)                  *)
(***************************************************************************)
\* hypothesis_tree._build_custom_framework: the L1_categories of a custom
\* framework
RECURSIVE BuildCategories(_, _)
BuildCategories(l1_categories, categories) ==
  IF categories = << >> THEN l1_categories
  ELSE LET category == Head(categories)
           l1_key   == SpacesToUnderscores(Upper(category))
           entry    ==
             [key |-> l1_key,
              val |-> [label |-> category,
                       L2_branches |->
                         << [key |-> "ANALYSIS",
                             val |-> [label |-> category \o " Analysis",
                                      suggested_L3 |->
                                        << category \o " Factor 1",
                                           category \o " Factor 2",
                                           category \o " Factor 3" >>]] >>]]
       IN  BuildCategories(DictPut(l1_categories, l1_key, entry), Tail(categories))

_build_custom_framework(categories) == BuildCategories(<< >>, categories)

\* a loaded template: two topics with pre-seeded branches; the branches of the
\* first topic mix a strategic and a tactical label
TemplateFramework ==
  << [key |-> "DESIRABILITY",
      val |-> [label |-> "Desirability",
               L2_branches |->
                 << [key |-> "CLINICAL", val |-> [label |-> "Clinical Value Strategy"]],
                    [key |-> "DELIVERY", val |-> [label |-> "Care Delivery Process",
                                                  suggested_L3 |-> << "Overall Care Hours" >>]] >>]],
     [key |-> "FEASIBILITY",
      val |-> [label |-> "Feasibility",
               L2_branches |->
                 << [key |-> "TECHNICAL", val |-> [label |-> "Technical Readiness"]],
                    [key |-> "STAFFING", val |-> [label |-> "Staff Capacity"]] >>]] >>

CustomCategories == << "Cost Analysis", "Financial Impact" >>

Frameworks == { TemplateFramework, _build_custom_framework(CustomCategories) }

Problem == "Should we scale the medical monitoring product?"

(***************************************************************************)
(* Responses of the content generation oracle (Gemini), as parsed JSON     *)
(***************************************************************************)
GoodL2 ==
  << [key |-> "DEMAND",   val |-> [label |-> "Analysis of Resident Demand"]],
     [key |-> "ADOPTION", val |-> [label |-> "Staff Adoption and"]] >>
OverlapL2 ==
  << [key |-> "PRICING_DESIGN", val |-> [label |-> "Pricing Model Design"]],
     [key |-> "PRICING_REVIEW", val |-> [label |-> "Pricing Model Review"]] >>
EmptyL2 == << >>

\* what the oracle may return for one topic
L2Candidates == { GoodL2, OverlapL2, EmptyL2 }

GoodLeaf(label) ==
  [label |-> label, question |-> "What is it?", metric_type |-> "quantitative",
   target |-> ">25%", data_source |-> "Pilot logs"]

GoodL3    == << GoodLeaf("Reduction in Fall Incidents"), GoodLeaf("Response Time") >>
OverlapL3 == << GoodLeaf("Night Response Time"), GoodLeaf("Day Response Time") >>
MissingL3 == << GoodLeaf("Alert Accuracy"),
                [label |-> "Staff Trust", question |-> "Do staff trust it?",
                 metric_type |-> "qualitative", target |-> "High"] >>
EmptyL3   == << >>
\* two leaves under one label, the first of them without a data source
DuplicateL3 == << [label |-> "Response Time", question |-> "How fast is it?",
                   metric_type |-> "quantitative", target |-> "<2 min"],
                  GoodLeaf("Response Time") >>

\* what the oracle may return for one branch
L3Candidates == { GoodL3, OverlapL3, MissingL3, EmptyL3, DuplicateL3 }

(***************************************************************************)
(* State                                                                   *)
(***************************************************************************)
VARIABLES
  pc,               \* position in generate_hypothesis_tree
  max_attempts,     \* the controllers' max_attempts argument
  l1_categories,    \* template["L1_categories"]
  l2_branches,      \* L2 controller: {L1_key: {L2_key: branch}}
  l2_validation,    \* L2 controller: validation_results
  temp_tree,        \* running controller: the tree handed to the validator
  failed_keys,      \* running controller: failed_l1_keys / failed_l2_keys
  attempt,          \* running controller: attempt
  round,            \* running controller: what is left of failed_keys[:] in the for loop
  memory,           \* running controller: ValidationMemory.failures
  initial_failed,   \* the scopes put on a failed-keys list by an initial validation
  l1_index,         \* generate_hypothesis_tree: position of the L3 loop over the topics
  l3_leaves,        \* L3 controller: {L2_key: [leaf]}
  validation_results, \* L3 controller: validation_results
  batched_l3_leaves,  \* generate_hypothesis_tree: {L1_key: {L2_key: [leaf]}}
  l3_validation,    \* generate_hypothesis_tree: validation_results["l3_validation"]
  individual,       \* generate_hypothesis_tree: leaves generated branch by branch
  all_passed,       \* generate_hypothesis_tree: validation_results["all_passed"]
  tree,             \* the returned tree
  oracle_calls,     \* number of generate_content calls, per calling function
  regenerations,    \* number of scope-specific re-invocations, per scope
  last_call,        \* the latest generate_content call and what came of it
  oracle_mode,      \* how the oracle behaves in this request
  faults,           \* responses so far that were not good content
  structure,        \* validator on its own: the structure handed to the validators
  first_call,       \* validator on its own: the first validator call and its result
  latest_call,      \* validator on its own: the latest validator call and its result
  edits,            \* validator on its own: replacements made in the structure
  calls,            \* memory on its own: the record_failure calls since creation or clear
  files,            \* persistence: the *.json files of the project directory
  store_call,       \* persistence: the latest call and what it returned
  store_ops         \* persistence: the save and delete calls made so far

vars == << pc, max_attempts, l1_categories, l2_branches, l2_validation, temp_tree,
           failed_keys, attempt, round, memory, initial_failed, l1_index,
           l3_leaves, validation_results, batched_l3_leaves, l3_validation, individual,
           all_passed, tree, oracle_calls, regenerations, last_call,
           oracle_mode, faults, structure, first_call, latest_call, edits, calls,
           files, store_call, store_ops >>

store_vars == << files, store_call, store_ops >>
unit_vars == << structure, first_call, latest_call, edits, calls, store_vars >>
l3_vars == << l1_index, l3_leaves, validation_results, batched_l3_leaves, l3_validation >>
l2_vars == << l2_branches, l2_validation >>
loop_vars == << temp_tree, failed_keys, attempt, round, memory >>

\* default of max_attempts in both controllers
DefaultMaxAttempts == 3
\* num_leaves_per_branch=3, num_leaves=3 in generate_hypothesis_tree
num_leaves_per_branch == 3

KeySeq(d) == [i \in 1..Len(d) |-> d[i].key]
L1Keys == DictKeys(l1_categories)

NoCall == [fn |-> "none"]

\* "unreliable": any response, at most MaxFaults of them not good;
\* "failing": every response is well-formed content that fails validation;
\* "broken": every call raises or returns text that does not parse
OracleModes == { "unreliable", "failing", "broken" }

NoValidation == [fn |-> "none"]

\* nothing is stored yet
StoreIdle ==
  /\ files = << >>
  /\ store_call = NoCall
  /\ store_ops = [saves |-> << >>, deletes |-> 0]

\* generate_hypothesis_tree calls no validator directly, owns no memory and
\* stores nothing
UnitIdle ==
  /\ StoreIdle
  /\ structure = [problem |-> "", tree |-> << >>]
  /\ first_call = NoValidation
  /\ latest_call = NoValidation
  /\ edits = 0
  /\ calls = << >>

Init ==
  /\ pc = "start"
  /\ max_attempts \in 1..MaxAttemptsBound
  /\ l1_categories \in Frameworks
  /\ l2_branches = << >>
  /\ l2_validation = [all_passed |-> FALSE, l1_results |-> << >>, attempts |-> << >>]
  /\ temp_tree = << >>
  /\ failed_keys = << >>
  /\ attempt = 0
  /\ round = << >>
  /\ memory = << >>
  /\ initial_failed = { }
  /\ l1_index = 0
  /\ l3_leaves = << >>
  /\ validation_results = [all_passed |-> FALSE, l2_results |-> << >>, attempts |-> << >>]
  /\ batched_l3_leaves = << >>
  /\ l3_validation = << >>
  /\ individual = << >>
  /\ all_passed = FALSE
  /\ tree = << >>
  /\ oracle_calls = [l2_batch |-> 0, l2_single |-> 0, l3_batch |-> 0,
                     l3_single |-> 0, l3_individual |-> 0]
  /\ regenerations = << >>
  /\ last_call = NoCall
  /\ oracle_mode \in OracleModes
  /\ faults = 0
  /\ UnitIdle

(***************************************************************************)
(* The oracle boundary                                                     *)
(***************************************************************************)
\* client.models.generate_content raises (network error, timeout, non-success
\* status): the call is outside every try block
Raise == [kind |-> "raise"]
\* the response does not parse: json.JSONDecodeError, AttributeError, KeyError
Malformed == [kind |-> "malformed"]
Ok(response) == [kind |-> "ok", response |-> response]

\* label clean-up of one parsed branch dict
CleanBranches(branches) ==
  [i \in 1..Len(branches) |->
     [key |-> branches[i].key,
      val |-> IF "label" \in DOMAIN branches[i].val
              THEN [branches[i].val EXCEPT !["label"] = _cleanup_label(@, 6)]
              ELSE branches[i].val]]

\* the label/question copy of the template branches of one topic
TemplateBranches(l1_data) ==
  LET template == Get(l1_data, "L2_branches", << >>)
  IN  [i \in 1..Len(template) |->
         [key |-> template[i].key,
          val |-> [label |-> Get(template[i].val, "label", template[i].key)]]]

\* generate_entire_tree_l2_branches_batch: the outcome of the call to the
\* returned {L1_key: {L2_key: branch}}
generate_entire_tree_l2_branches_batch(framework_structure, outcome) ==
  IF outcome.kind = "ok"
  THEN [i \in 1..Len(outcome.response) |->
          [key |-> outcome.response[i].key,
           val |-> CleanBranches(outcome.response[i].val)]]
  ELSE [i \in 1..Len(framework_structure) |->
          [key |-> framework_structure[i].key,
           val |-> TemplateBranches(framework_structure[i].val)]]

\* generate_single_l1_l2_branches
generate_single_l1_l2_branches(l1_data, outcome) ==
  IF outcome.kind = "ok" THEN CleanBranches(outcome.response)
  ELSE TemplateBranches(l1_data)

\* the whole-tree responses the oracle may give: a branch set per topic, or
\* the last topic left out
L2BatchResponses ==
  LET keys == KeySeq(l1_categories)
  IN  { [i \in 1..Len(keys) |-> [key |-> keys[i], val |-> choice[i]]] :
          choice \in [1..Len(keys) -> {GoodL2, OverlapL2}] }
      \cup { [i \in 1..(Len(keys) - 1) |-> [key |-> keys[i], val |-> GoodL2]] }

\* the outcomes the oracle may produce for one call, by its mode
Outcomes(all, good, failing) ==
  CASE oracle_mode = "failing" -> { failing }
    [] oracle_mode = "broken"  -> { Malformed, Raise }
    [] OTHER -> IF faults < MaxFaults THEN all \cup { good } ELSE { good }

AllTopics(content) ==
  [i \in 1..Len(l1_categories) |-> [key |-> l1_categories[i].key, val |-> content]]

L2BatchOutcomes ==
  Outcomes({ Ok(r) : r \in L2BatchResponses } \cup { Malformed, Raise },
           Ok(AllTopics(GoodL2)), Ok(AllTopics(OverlapL2)))
L2SingleOutcomes ==
  Outcomes({ Ok(r) : r \in L2Candidates } \cup { Malformed, Raise },
           Ok(GoodL2), Ok(OverlapL2))

CountCall(fn) == [oracle_calls EXCEPT ![fn] = @ + 1]
CountFault(outcome, good) == IF outcome = good THEN faults ELSE faults + 1

(***************************************************************************)
(* generate_entire_tree_l2_branches_batch_with_validation                  *)
(***************************************************************************)
\* faulty variants of the while condition: one round more, two rounds more, one less
LoopContinuesOneMore(failed, n, max) == failed # << >> /\ n <= max + 1
LoopContinuesTwoMore(failed, n, max) == failed # << >> /\ n <= max + 2
LoopContinuesOneLess(failed, n, max) == failed # << >> /\ n < max

\* the while condition of the regeneration loop
LoopContinues(failed, n, max) == failed # << >> /\ n <= max

\* faulty variant: the key stays on the list
KeepKey(failed, key) == failed

\* failed_keys.remove(key)
RemoveKey(failed, key) == SelectSeq(failed, LAMBDA k : k # key)

\* faulty variant: every validated scope counts as failed
RejectedAlways(validation_result) == TRUE

\* if not validation_result["is_mece"]
Rejected(validation_result) == ~validation_result.is_mece

\* memory after the failures among keys have been recorded, in order; the
\* component of a key is prefix + key
RECURSIVE RecordFailures(_, _, _, _, _, _)
RecordFailures(failures, level, keys, prefix, results, iteration) ==
  IF keys = << >> THEN failures
  ELSE RecordFailures(
         IF Rejected(results[Head(keys)])
         THEN record_failure(failures, level, prefix \o Head(keys),
                             results[Head(keys)], iteration)
         ELSE failures,
         level, Tail(keys), prefix, results, iteration)

L2Component(l1_key) == l1_key

\* lines 1007-1016: the temporary tree of the L2 controller
L2TempTree(framework_structure, branches) ==
  [k \in DictKeys(framework_structure) |->
     [label |-> Get(DictGet(framework_structure, k).val, "label", k),
      L2 |-> IF k \in DictKeys(branches) THEN DictGet(branches, k).val ELSE << >>]]

\* faulty variant: the regenerated content lands in every scope
ReplaceEveryScope(content, key, regenerated) ==
  [i \in 1..Len(content) |-> [key |-> content[i].key, val |-> regenerated]]

\* l2_branches[l1_key] = regenerated_l2
ReplaceScope(content, key, regenerated) ==
  DictPut(content, key, [key |-> key, val |-> regenerated])

\* temp_tree[l1_key]["L2"] = regenerated_l2
ReplaceL2InTempTree(t, l1_key, regenerated) ==
  [t EXCEPT ![l1_key] = [@ EXCEPT !["L2"] = regenerated]]

L2Initial ==
  /\ pc = "start"
  /\ \E outcome \in L2BatchOutcomes :
       /\ oracle_calls' = CountCall("l2_batch")
       /\ faults' = CountFault(outcome, Ok(AllTopics(GoodL2)))
       /\ last_call' = [fn |-> "generate_entire_tree_l2_branches_batch",
                        scope |-> "all", feedback |-> << >>, outcome |-> outcome.kind]
       /\ IF outcome.kind = "raise"
          THEN /\ pc' = "raised"
               /\ UNCHANGED << l2_vars, loop_vars, initial_failed >>
          ELSE LET branches == generate_entire_tree_l2_branches_batch(l1_categories, outcome)
                   t        == L2TempTree(l1_categories, branches)
                   results  == [k \in L1Keys |-> validate_l2_branches(t, k)]
                   keys     == KeySeq(l1_categories)
               IN  /\ l2_branches' = branches
                   /\ temp_tree' = t
                   /\ l2_validation' = [all_passed |-> FALSE, l1_results |-> results,
                                        attempts |-> [k \in L1Keys |-> 1]]
                   /\ failed_keys' = SelectSeq(keys, LAMBDA k : Rejected(results[k]))
                   /\ initial_failed' =
                        initial_failed \cup { L2Component(k) : k \in { j \in L1Keys : ~results[j].is_mece } }
                   /\ memory' = RecordFailures(<< >>, "L2", keys, "", results, 1)
                   /\ attempt' = 2
                   /\ round' = << >>
                   /\ pc' = "l2_loop"
  /\ UNCHANGED << unit_vars, oracle_mode, max_attempts, l1_categories, l3_vars, individual, all_passed, tree,
                  regenerations >>

L2Regenerate ==
  /\ pc = "l2_loop"
  /\ round # << >> \/ LoopContinues(failed_keys, attempt, max_attempts)
  /\ LET copy     == IF round = << >> THEN failed_keys ELSE round
         l1_key   == Head(copy)
         feedback == get_feedback_prompt(memory, "L2", l1_key)
     IN  \E outcome \in L2SingleOutcomes :
           /\ oracle_calls' = CountCall("l2_single")
           /\ faults' = CountFault(outcome, Ok(GoodL2))
           /\ regenerations' = [k \in DOMAIN regenerations \cup {l1_key} |->
                                  IF k = l1_key THEN Get(regenerations, k, 0) + 1
                                  ELSE regenerations[k]]
           /\ last_call' = [fn |-> "generate_single_l1_l2_branches", scope |-> l1_key,
                            feedback |-> feedback, outcome |-> outcome.kind]
           /\ IF outcome.kind = "raise"
              THEN /\ pc' = "raised"
                   /\ UNCHANGED << l2_vars, loop_vars >>
              ELSE LET regenerated_l2 ==
                         generate_single_l1_l2_branches(DictGet(l1_categories, l1_key).val, outcome)
                       t      == ReplaceL2InTempTree(temp_tree, l1_key, regenerated_l2)
                       result == validate_l2_branches(t, l1_key)
                   IN  /\ l2_branches' = ReplaceScope(l2_branches, l1_key, regenerated_l2)
                       /\ temp_tree' = t
                       /\ l2_validation' =
                            [l2_validation EXCEPT !.l1_results[l1_key] = result,
                                                  !.attempts[l1_key] = attempt]
                       /\ failed_keys' = IF Rejected(result) THEN failed_keys
                                         ELSE RemoveKey(failed_keys, l1_key)
                       /\ memory' = IF Rejected(result)
                                    THEN record_failure(memory, "L2", l1_key, result, attempt)
                                    ELSE memory
                       /\ round' = Tail(copy)
                       /\ attempt' = IF Tail(copy) = << >> THEN attempt + 1 ELSE attempt
                       /\ pc' = "l2_loop"
  /\ UNCHANGED << unit_vars, oracle_mode, max_attempts, l1_categories, l3_vars, individual, all_passed,
                  tree, initial_failed >>

L2Return ==
  /\ pc = "l2_loop"
  /\ round = << >>
  /\ ~LoopContinues(failed_keys, attempt, max_attempts)
  /\ l2_validation' = [l2_validation EXCEPT !.all_passed = (failed_keys = << >>)]
  /\ l1_index' = 1
  /\ pc' = "l3_start"
  /\ UNCHANGED << unit_vars, oracle_mode, max_attempts, l1_categories, l2_branches, loop_vars, l3_leaves,
                  validation_results, batched_l3_leaves, l3_validation, individual,
                  all_passed, tree, oracle_calls, regenerations, last_call, faults,
                  initial_failed >>

(***************************************************************************)
(* Leaf generation                                                         *)
(***************************************************************************)
Digit(n) == SubSeq("0123456789", n + 1, n + 1)

\* f"{n:03d}" for n < 1000
Pad3(n) == Digit(n \div 100) \o Digit((n \div 10) % 10) \o Digit(n % 10)

\* f"{n}" for n < 10
Str(n) == Digit(n)

WithField(leaf, field, value) ==
  [f \in DOMAIN leaf \cup {field} |-> IF f = field THEN value ELSE leaf[f]]

CleanLeaf(leaf) ==
  IF "label" \in DOMAIN leaf THEN [leaf EXCEPT !["label"] = _cleanup_label(@, 6)] ELSE leaf

\* Python's None
None == [py |-> "None"]

\* faulty variant: the leaf counter is never advanced
NumberedSame(leaf, n) ==
  WithField(WithField(WithField(WithField(CleanLeaf(leaf),
    "id", "L3_" \o Pad3(1)), "status", "UNTESTED"), "confidence", None), "components", << >>)

\* the id, status, confidence and components fields the batched and the
\* individual generator add
Numbered(leaf, n) ==
  WithField(WithField(WithField(WithField(CleanLeaf(leaf),
    "id", "L3_" \o Pad3(n)), "status", "UNTESTED"), "confidence", None), "components", << >>)

\* number of leaves in the entries before entry i
RECURSIVE LeavesBefore(_, _)
LeavesBefore(response, i) ==
  IF i <= 1 THEN 0 ELSE LeavesBefore(response, i - 1) + Len(response[i - 1].val)

\* generate_l1_category_batch: {L2_key: [leaf]} for one topic, ids counted
\* through the whole response; {} when the response does not parse
generate_l1_category_batch(outcome) ==
  IF outcome.kind = "ok"
  THEN [i \in 1..Len(outcome.response) |->
          [key |-> outcome.response[i].key,
           val |-> [j \in 1..Len(outcome.response[i].val) |->
                      Numbered(outcome.response[i].val[j],
                               LeavesBefore(outcome.response, i) + j)]]]
  ELSE << >>

\* generate_single_l2_l3_leaves
generate_single_l2_l3_leaves(l1_data, l2_key, outcome) ==
  IF outcome.kind = "ok"
  THEN [j \in 1..Len(outcome.response) |-> CleanLeaf(outcome.response[j])]
  ELSE LET branches  == Get(l1_data, "L2_branches", << >>)
           l2_data   == IF l2_key \in DictKeys(branches) THEN DictGet(branches, l2_key).val
                        ELSE << >>
           suggested == Get(l2_data, "suggested_L3", << >>)
           taken     == SubSeq(suggested, 1,
                               IF Len(suggested) < num_leaves_per_branch THEN Len(suggested)
                               ELSE num_leaves_per_branch)
           fallback  == [j \in 1..Len(taken) |->
                           [label |-> taken[j],
                            question |-> "What is the " \o Lower(taken[j]) \o "?",
                            metric_type |-> "quantitative",
                            target |-> "TBD", data_source |-> "TBD"]]
       IN  IF fallback # << >> THEN fallback
           ELSE << [label |-> "Placeholder Metric", question |-> "What is the key metric?",
                    metric_type |-> "quantitative", target |-> "TBD",
                    data_source |-> "TBD"] >>

_generate_fallback_l3_leaves(l2_branch, num_leaves) ==
  [i \in 1..num_leaves |->
     [id |-> "L3_" \o Pad3(i),
      label |-> l2_branch \o " Factor " \o Str(i),
      question |-> "What is the impact of " \o Lower(l2_branch) \o " factor " \o Str(i) \o "?",
      metric_type |-> "qualitative",
      target |-> "Positive assessment from stakeholders",
      data_source |-> l2_branch \o " data and analysis",
      status |-> "UNTESTED",
      confidence |-> None,
      components |-> << >>,
      assessment_criteria |->
        "Evaluate " \o Lower(l2_branch) \o " factor " \o Str(i) \o " against target"]]

\* generate_problem_specific_l3_leaves
generate_problem_specific_l3_leaves(l2_branch, num_leaves, outcome) ==
  IF outcome.kind = "ok"
  THEN [j \in 1..Len(outcome.response) |-> Numbered(outcome.response[j], j)]
  ELSE _generate_fallback_l3_leaves(l2_branch, num_leaves)

\* leaf_key = f"L3_{leaf.get('label', '').upper().replace(' ', '_')}"
LeafKey(leaf) == "L3_" \o SpacesToUnderscores(Upper(Get(leaf, "label", "")))

\* the L3 dict the controller builds from a leaf list
RECURSIVE LeafDictFrom(_, _)
LeafDictFrom(d, leaves) ==
  IF leaves = << >> THEN d
  ELSE LeafDictFrom(DictPut(d, LeafKey(Head(leaves)),
                            [key |-> LeafKey(Head(leaves)), val |-> Head(leaves)]),
                    Tail(leaves))

LeafDict(leaves) == LeafDictFrom(<< >>, leaves)

\* lines 1241-1256: the temporary tree of the L3 controller
L3TempTree(l1_key, l1_data, leaves) ==
  LET branches == Get(l1_data, "L2_branches", << >>)
  IN  [k \in {l1_key} |->
         [label |-> Get(l1_data, "label", l1_key),
          L2 |-> [i \in 1..Len(branches) |->
                    [key |-> branches[i].key,
                     val |-> [label |-> Get(branches[i].val, "label", branches[i].key),
                              L3 |-> IF branches[i].key \in DictKeys(leaves)
                                     THEN LeafDict(DictGet(leaves, branches[i].key).val)
                                     ELSE << >>]]]]]

\* faulty variant: the temporary tree keeps the leaves of the previous attempt
KeepL3InTempTree(t, l1_key, l2_key, regenerated) == t

\* lines 1298-1301: temp_tree[l1_key]["L2"][l2_key]["L3"] rebuilt from the
\* regenerated leaves
ReplaceL3InTempTree(t, l1_key, l2_key, regenerated) ==
  [t EXCEPT ![l1_key] =
     [@ EXCEPT !["L2"] =
        [i \in 1..Len(@) |->
           IF @[i].key = l2_key
           THEN [key |-> l2_key, val |-> [@[i].val EXCEPT !["L3"] = LeafDict(regenerated)]]
           ELSE @[i]]]]

\* hypothesis_tree.py lines 92-97: the topic with the generated branches
L1DataWithL2(i) ==
  LET l1_key  == l1_categories[i].key
      l1_data == l1_categories[i].val
  IN  [f \in DOMAIN l1_data \cup {"L2_branches"} |->
         IF f = "L2_branches"
         THEN (IF l1_key \in DictKeys(l2_branches) THEN DictGet(l2_branches, l1_key).val
               ELSE << >>)
         ELSE l1_data[f]]

\* the per-topic responses the oracle may give: a leaf list per branch, the
\* first branch with an incomplete leaf, or the last branch left out
L3BatchResponses(branches) ==
  LET keys == KeySeq(branches)
  IN  { [i \in 1..Len(keys) |-> [key |-> keys[i], val |-> choice[i]]] :
          choice \in [1..Len(keys) -> {GoodL3, OverlapL3}] }
      \cup { [i \in 1..Len(keys) |->
                [key |-> keys[i], val |-> IF i = 1 THEN MissingL3 ELSE GoodL3]] }
      \cup { [i \in 1..(Len(keys) - 1) |-> [key |-> keys[i], val |-> GoodL3]] }

AllBranches(branches, content) ==
  [i \in 1..Len(branches) |-> [key |-> branches[i].key, val |-> content]]

L3BatchOutcomes(branches) ==
  Outcomes({ Ok(r) : r \in L3BatchResponses(branches) } \cup { Malformed, Raise },
           Ok(AllBranches(branches, GoodL3)), Ok(AllBranches(branches, OverlapL3)))
L3SingleOutcomes ==
  Outcomes({ Ok(r) : r \in L3Candidates } \cup { Malformed, Raise },
           Ok(GoodL3), Ok(OverlapL3))
L3IndividualOutcomes ==
  Outcomes({ Ok(GoodL3), Ok(EmptyL3), Malformed, Raise }, Ok(GoodL3), Ok(OverlapL3))

(***************************************************************************)
(* generate_l1_category_batch_with_validation                              *)
(***************************************************************************)
L3Initial ==
  /\ pc = "l3_start"
  /\ l1_index <= Len(l1_categories)
  /\ LET l1_key   == l1_categories[l1_index].key
         l1_data  == L1DataWithL2(l1_index)
         branches == l1_data["L2_branches"]
         keys     == KeySeq(branches)
     IN  \E outcome \in L3BatchOutcomes(branches) :
           /\ oracle_calls' = CountCall("l3_batch")
           /\ faults' = CountFault(outcome, Ok(AllBranches(branches, GoodL3)))
           /\ last_call' = [fn |-> "generate_l1_category_batch", scope |-> l1_key,
                            feedback |-> << >>, outcome |-> outcome.kind]
           /\ IF outcome.kind = "raise"
              THEN /\ pc' = "raised"
                   /\ UNCHANGED << l3_leaves, validation_results, loop_vars, initial_failed >>
              ELSE LET leaves  == generate_l1_category_batch(outcome)
                       t       == L3TempTree(l1_key, l1_data, leaves)
                       results == [k \in DictKeys(branches) |-> validate_l3_leaves(t, l1_key, k)]
                       component(k) == L3Component(l1_key, k)
                   IN  /\ l3_leaves' = leaves
                       /\ temp_tree' = t
                       /\ validation_results' =
                            [all_passed |-> FALSE, l2_results |-> results,
                             attempts |-> [k \in DictKeys(branches) |-> 1]]
                       /\ failed_keys' = SelectSeq(keys, LAMBDA k : Rejected(results[k]))
                       /\ initial_failed' =
                            initial_failed \cup
                              { component(k) : k \in { j \in DictKeys(branches) : ~results[j].is_mece } }
                       /\ memory' = RecordFailures(<< >>, "L3", keys, l1_key \o ".", results, 1)
                       /\ attempt' = 2
                       /\ round' = << >>
                       /\ pc' = "l3_loop"
  /\ UNCHANGED << unit_vars, oracle_mode, max_attempts, l1_categories, l2_vars, l1_index, batched_l3_leaves,
                  l3_validation, individual, all_passed, tree, regenerations >>

L3Regenerate ==
  /\ pc = "l3_loop"
  /\ round # << >> \/ LoopContinues(failed_keys, attempt, max_attempts)
  /\ LET copy      == IF round = << >> THEN failed_keys ELSE round
         l2_key    == Head(copy)
         l1_key    == l1_categories[l1_index].key
         component == L3Component(l1_key, l2_key)
         feedback  == get_feedback_prompt(memory, "L3", component)
     IN  \E outcome \in L3SingleOutcomes :
           /\ oracle_calls' = CountCall("l3_single")
           /\ faults' = CountFault(outcome, Ok(GoodL3))
           /\ regenerations' = [k \in DOMAIN regenerations \cup {component} |->
                                  IF k = component THEN Get(regenerations, k, 0) + 1
                                  ELSE regenerations[k]]
           /\ last_call' = [fn |-> "generate_single_l2_l3_leaves", scope |-> component,
                            feedback |-> feedback, outcome |-> outcome.kind]
           /\ IF outcome.kind = "raise"
              THEN /\ pc' = "raised"
                   /\ UNCHANGED << l3_leaves, validation_results, loop_vars >>
              ELSE LET regenerated_l3 ==
                         generate_single_l2_l3_leaves(L1DataWithL2(l1_index), l2_key, outcome)
                       t      == ReplaceL3InTempTree(temp_tree, l1_key, l2_key, regenerated_l3)
                       result == validate_l3_leaves(t, l1_key, l2_key)
                   IN  /\ l3_leaves' = ReplaceScope(l3_leaves, l2_key, regenerated_l3)
                       /\ temp_tree' = t
                       /\ validation_results' =
                            [validation_results EXCEPT !.l2_results[l2_key] = result,
                                                       !.attempts[l2_key] = attempt]
                       /\ failed_keys' = IF Rejected(result) THEN failed_keys
                                         ELSE RemoveKey(failed_keys, l2_key)
                       /\ memory' = IF Rejected(result)
                                    THEN record_failure(memory, "L3", component, result, attempt)
                                    ELSE memory
                       /\ round' = Tail(copy)
                       /\ attempt' = IF Tail(copy) = << >> THEN attempt + 1 ELSE attempt
                       /\ pc' = "l3_loop"
  /\ UNCHANGED << unit_vars, oracle_mode, max_attempts, l1_categories, l2_vars, l1_index, batched_l3_leaves,
                  l3_validation, individual, all_passed, tree, initial_failed >>

\* the controller returns; hypothesis_tree.py lines 108-109 store its results
L3Return ==
  /\ pc = "l3_loop"
  /\ round = << >>
  /\ ~LoopContinues(failed_keys, attempt, max_attempts)
  /\ LET l1_key == l1_categories[l1_index].key
         report == [validation_results EXCEPT !.all_passed = (failed_keys = << >>)]
     IN  /\ validation_results' = report
         /\ batched_l3_leaves' = Append(batched_l3_leaves, [key |-> l1_key, val |-> l3_leaves])
         /\ l3_validation' = Append(l3_validation, [key |-> l1_key, val |-> report])
  /\ l1_index' = l1_index + 1
  /\ pc' = "l3_start"
  /\ UNCHANGED << unit_vars, oracle_mode, max_attempts, l1_categories, l2_vars, loop_vars, l3_leaves, individual,
                  all_passed, tree, oracle_calls, regenerations, last_call, faults,
                  initial_failed >>

(***************************************************************************)
(* generate_hypothesis_tree: aggregation and assembly                      *)
(***************************************************************************)
\* faulty variant: the leaf reports are left out of the conjunction
AllPassedBranchesOnly(l2_report, l3_reports) == Get(l2_report, "all_passed", FALSE)

\* lines 112-115
AllPassed(l2_report, l3_reports) ==
  /\ Get(l2_report, "all_passed", FALSE)
  /\ \A i \in 1..Len(l3_reports) : Get(l3_reports[i].val, "all_passed", FALSE)

Aggregate ==
  /\ pc = "l3_start"
  /\ l1_index > Len(l1_categories)
  /\ all_passed' = AllPassed(l2_validation, l3_validation)
  /\ pc' = "assemble"
  /\ UNCHANGED << unit_vars, oracle_mode, max_attempts, l1_categories, l2_vars, loop_vars, l3_vars, individual,
                  tree, oracle_calls, regenerations, last_call, faults,
                  initial_failed >>

\* lines 129-137: the branches the tree gets for a topic
TreeBranches(i) ==
  LET l1_key == l1_categories[i].key
  IN  IF l2_branches # << >> /\ l1_key \in DictKeys(l2_branches)
      THEN DictGet(l2_branches, l1_key).val
      ELSE TemplateBranches(l1_categories[i].val)

\* line 150: batched_l3_leaves.get(l1_key, {}).get(l2_key, [])
BatchedLeaves(l1_key, l2_key) ==
  IF l1_key \in DictKeys(batched_l3_leaves)
  THEN LET of_topic == DictGet(batched_l3_leaves, l1_key).val
       IN  IF l2_key \in DictKeys(of_topic) THEN DictGet(of_topic, l2_key).val ELSE << >>
  ELSE << >>

\* the branches the assembly loop finds without leaves, in loop order
MissingLeaves ==
  Flatten([i \in 1..Len(l1_categories) |->
    LET branches == TreeBranches(i)
        empty    == SelectSeq(branches,
                      LAMBDA b : BatchedLeaves(l1_categories[i].key, b.key) = << >>)
    IN  [j \in 1..Len(empty) |->
           [l1_key |-> l1_categories[i].key, l2_key |-> empty[j].key,
            label |-> Get(empty[j].val, "label", empty[j].key)]]])

\* lines 153-164: a branch without leaves is generated on its own
IndividualGenerate ==
  /\ pc = "assemble"
  /\ Len(individual) < Len(MissingLeaves)
  /\ LET scope     == MissingLeaves[Len(individual) + 1]
         component == L3Component(scope.l1_key, scope.l2_key)
     IN  \E outcome \in L3IndividualOutcomes :
           /\ oracle_calls' = CountCall("l3_individual")
           /\ faults' = CountFault(outcome, Ok(GoodL3))
           /\ last_call' = [fn |-> "generate_problem_specific_l3_leaves", scope |-> component,
                            feedback |-> << >>, outcome |-> outcome.kind]
           /\ IF outcome.kind = "raise"
              THEN pc' = "raised" /\ UNCHANGED individual
              ELSE /\ pc' = "assemble"
                   /\ individual' =
                        Append(individual,
                          [key |-> component,
                           val |-> generate_problem_specific_l3_leaves(
                                     scope.label, num_leaves_per_branch, outcome)])
  /\ UNCHANGED << unit_vars, oracle_mode, max_attempts, l1_categories, l2_vars, loop_vars, l3_vars, all_passed,
                  tree, regenerations, initial_failed >>

\* lines 120-186: the returned tree
BuildTree ==
  [tree |->
     [i \in 1..Len(l1_categories) |->
        [key |-> l1_categories[i].key,
         val |-> [label |-> Get(l1_categories[i].val, "label", l1_categories[i].key),
                  L2_branches |->
                    LET branches == TreeBranches(i)
                    IN  [j \in 1..Len(branches) |->
                           [key |-> branches[j].key,
                            val |-> [label |-> Get(branches[j].val, "label", branches[j].key),
                                     L3_leaves |->
                                       LET batched == BatchedLeaves(l1_categories[i].key,
                                                                    branches[j].key)
                                       IN  IF batched # << >> THEN batched
                                           ELSE DictGet(individual,
                                                  L3Component(l1_categories[i].key,
                                                              branches[j].key)).val]]]]]],
   problem |-> Problem,
   metadata |-> [mece_validated |-> all_passed,
                 validation_results |-> [l2_validation |-> l2_validation,
                                         l3_validation |-> l3_validation,
                                         all_passed |-> all_passed]]]

Finish ==
  /\ pc = "assemble"
  /\ Len(individual) = Len(MissingLeaves)
  /\ tree' = BuildTree
  /\ pc' = "done"
  /\ UNCHANGED << unit_vars, oracle_mode, max_attempts, l1_categories, l2_vars, loop_vars, l3_vars, individual,
                  all_passed, oracle_calls, regenerations, last_call, faults,
                  initial_failed >>

Next ==
  \/ L2Initial
  \/ L2Regenerate
  \/ L2Return
  \/ L3Initial
  \/ L3Regenerate
  \/ L3Return
  \/ Aggregate
  \/ IndividualGenerate
  \/ Finish

Spec == Init /\ [][Next]_vars

(***************************************************************************)
(* Properties                                                              *)
(***************************************************************************)
T == Len(l1_categories)
Regens(scope) == Get(regenerations, scope, 0)
RegensAfter(scope) == Get(regenerations', scope, 0)

\* the L2 controller has returned
L2Returned == l1_index >= 1

\* the content the L2 controller holds for a topic
L2Content(k) ==
  IF k \in DictKeys(l2_branches) THEN << TRUE, DictGet(l2_branches, k).val >>
  ELSE << FALSE, << >> >>

\* the content the running L3 controller holds for a branch
L3Content(k) ==
  IF k \in DictKeys(l3_leaves) THEN << TRUE, DictGet(l3_leaves, k).val >>
  ELSE << FALSE, << >> >>

\* every scope of a returned controller satisfies P(regenerations, result, attempts)
EveryReturnedScope(P(_, _, _)) ==
  /\ L2Returned =>
       \A k \in L1Keys :
         P(Regens(L2Component(k)), l2_validation.l1_results[k], l2_validation.attempts[k])
  /\ \A i \in 1..Len(l3_validation) :
       \A k \in DOMAIN l3_validation[i].val.l2_results :
         P(Regens(L3Component(l3_validation[i].key, k)),
           l3_validation[i].val.l2_results[k], l3_validation[i].val.attempts[k])

SomeReturnedScope(P(_, _, _)) == ~EveryReturnedScope(LAMBDA n, r, a : ~P(n, r, a))

C2_TerminalStates ==
  EveryReturnedScope(LAMBDA n, r, a : r.is_mece \/ (~r.is_mece /\ a = max_attempts))

C2_Witness ==
  /\ pc = "done"
  /\ max_attempts >= 2
  /\ SomeReturnedScope(LAMBDA n, r, a : r.is_mece /\ a < max_attempts)
  /\ SomeReturnedScope(LAMBDA n, r, a : ~r.is_mece /\ a = max_attempts)

\* C3: a step that regenerates one scope leaves the content, the result and
\* the attempt count of every other scope as they were: the sibling scopes
\* of the running controller, the branch sets while leaves are regenerated,
\* and the leaf sets of the topics already returned.
C3_ScopeIsolation ==
  [][ /\ (oracle_calls'.l2_single # oracle_calls.l2_single /\ pc' # "raised") =>
           \A k \in L1Keys \ { last_call'.scope } :
             /\ L2Content(k)' = L2Content(k)
             /\ temp_tree'[k] = temp_tree[k]
             /\ l2_validation'.l1_results[k] = l2_validation.l1_results[k]
             /\ l2_validation'.attempts[k] = l2_validation.attempts[k]
      /\ (oracle_calls'.l3_single # oracle_calls.l3_single /\ pc' # "raised") =>
           /\ \A k \in DOMAIN validation_results.l2_results :
                L3Component(l1_categories[l1_index].key, k) # last_call'.scope =>
                  /\ L3Content(k)' = L3Content(k)
                  /\ validation_results'.l2_results[k] = validation_results.l2_results[k]
                  /\ validation_results'.attempts[k] = validation_results.attempts[k]
           /\ UNCHANGED << l2_branches, l2_validation, batched_l3_leaves, l3_validation >>
    ]_vars

C3_Witness ==
  /\ pc = "l3_loop"
  /\ last_call.fn = "generate_single_l2_l3_leaves"
  /\ \E k \in DOMAIN validation_results.l2_results :
       /\ L3Component(l1_categories[l1_index].key, k) # last_call.scope
       /\ validation_results.l2_results[k].is_mece
       /\ L3Content(k)[2] # << >>

\* C4: once a scope's validation has returned is_mece = true, no later step
\* of the same controller run invokes the oracle for it or changes its
\* content, its result or its attempt count.
C4_PassIsTerminal ==
  [][ /\ \A k \in DOMAIN l2_validation.l1_results :
           l2_validation.l1_results[k].is_mece =>
             /\ L2Content(k)' = L2Content(k)
             /\ l2_validation'.l1_results[k] = l2_validation.l1_results[k]
             /\ l2_validation'.attempts[k] = l2_validation.attempts[k]
             /\ RegensAfter(L2Component(k)) = Regens(L2Component(k))
      /\ pc = "l3_loop" =>
           \A k \in DOMAIN validation_results.l2_results :
             validation_results.l2_results[k].is_mece =>
               /\ L3Content(k)' = L3Content(k)
               /\ validation_results'.l2_results[k] = validation_results.l2_results[k]
               /\ validation_results'.attempts[k] = validation_results.attempts[k]
               /\ RegensAfter(L3Component(l1_categories[l1_index].key, k))
                    = Regens(L3Component(l1_categories[l1_index].key, k))
    ]_vars

C4_Witness ==
  /\ pc = "l3_loop"
  /\ \E k, j \in DOMAIN validation_results.l2_results :
       /\ validation_results.l2_results[k].is_mece
       /\ validation_results.attempts[k] = 1
       /\ validation_results.attempts[j] = 3

\* C5: if the first response for every scope validates as MECE, then no
\* failure record is written, no regeneration or individual call is made,
\* and generate_hypothesis_tree returns all_passed = true with every
\* attempt count 1.
C5_FirstTimeRight ==
  initial_failed = { } =>
    /\ memory = << >>
    /\ regenerations = << >>
    /\ oracle_calls.l2_single = 0 /\ oracle_calls.l3_single = 0
    /\ oracle_calls.l3_individual = 0
    /\ EveryReturnedScope(LAMBDA n, r, a : r.is_mece /\ a = 1)
    /\ pc = "done" => all_passed /\ tree.metadata.mece_validated

C5_Witness ==
  /\ pc = "done"
  /\ initial_failed = { }
  /\ max_attempts = DefaultMaxAttempts
  /\ SomeReturnedScope(LAMBDA n, r, a : r.level = "L3")

\* the verdict of the root topic set of the returned tree
RootVerdict == validate_mece_structure([tree |-> tree.tree, problem |-> tree.problem]).is_mece

AllBranchSetsPass == \A k \in L1Keys : l2_validation.l1_results[k].is_mece
AllLeafSetsPass ==
  \A i \in 1..Len(l3_validation) :
    \A k \in DOMAIN l3_validation[i].val.l2_results : l3_validation[i].val.l2_results[k].is_mece

L2StageCalls == oracle_calls.l2_batch + oracle_calls.l2_single
L3StageCalls == oracle_calls.l3_batch + oracle_calls.l3_single + oracle_calls.l3_individual

\* C7 as stated: at the branch stage and at the leaf stage the number of
\* oracle calls is at most (number of topics) x max_attempts.
C7_Original ==
  /\ L2StageCalls <= T * max_attempts
  /\ L3StageCalls <= T * max_attempts

\* the calls the L3 controller may make for the first n topics
RECURSIVE L3ControllerBudget(_)
L3ControllerBudget(n) ==
  IF n = 0 THEN 0
  ELSE L3ControllerBudget(n - 1)
       + 1 + Len(L1DataWithL2(n)["L2_branches"]) * (max_attempts - 1)

RECURSIVE TreeBranchCount(_)
TreeBranchCount(n) == IF n = 0 THEN 0 ELSE TreeBranchCount(n - 1) + Len(TreeBranches(n))

\* C7 amended: the branch stage makes at most 1 + topics x (max_attempts - 1)
\* calls, which is at most topics x max_attempts.  The leaf stage makes, for
\* each topic, at most 1 + (branches of the topic) x (max_attempts - 1)
\* controller calls, and the assembly at most one more call per branch of the
\* tree: the count grows with the number of branches, not with the number of
\* leaves.
C7_CallBudget ==
  /\ L2StageCalls <= 1 + T * (max_attempts - 1)
  /\ L2StageCalls <= T * max_attempts
  /\ oracle_calls.l3_batch + oracle_calls.l3_single
       <= L3ControllerBudget(IF l1_index > T THEN T ELSE l1_index)
  /\ oracle_calls.l3_individual <= TreeBranchCount(T)

C7_Witness ==
  /\ pc = "done"
  /\ L3StageCalls > T * max_attempts
  /\ oracle_calls.l3_individual = 0

\* C8: an oracle failure or a malformed response is converted to fallback
\* content at the scope's generation step; no error reaches the caller.
C8_NoErrorPropagates == pc # "raised"

\* C9: against an oracle that fails or returns malformed output on every
\* call the run still comes to its end: every failed call was replaced by
\* fallback content that was validated and used up one attempt of its scope.
C9_FallbackTerminates ==
  (oracle_mode = "broken" /\ last_call # NoCall) =>
    /\ pc # "raised"
    /\ EveryReturnedScope(LAMBDA n, r, a : a = n + 1)
    /\ last_call.fn = "generate_single_l1_l2_branches" =>
         /\ L2Content(last_call.scope)[2]
              = TemplateBranches(DictGet(l1_categories, last_call.scope).val)
         /\ l2_validation.attempts[last_call.scope] = Regens(last_call.scope) + 1

\* the branches of a topic in the returned tree, and the leaves of a branch
TreeBranchesOf(l1_key) == DictGet(tree.tree, l1_key).val.L2_branches
TreeLeavesOf(l1_key, l2_key) == DictGet(TreeBranchesOf(l1_key), l2_key).val.L3_leaves

KeysAndLabels(branches) ==
  [i \in 1..Len(branches) |->
     [key |-> branches[i].key, label |-> Get(branches[i].val, "label", branches[i].key)]]

\* the verdict the L2 validator gives on the branches the tree holds
VerdictOnTreeBranches(l1_key) ==
  validate_l2_branches(
    [k \in {l1_key} |->
       [label |-> l1_key,
        L2 |-> [i \in 1..Len(TreeBranchesOf(l1_key)) |->
                  [key |-> TreeBranchesOf(l1_key)[i].key,
                   val |-> [label |-> TreeBranchesOf(l1_key)[i].val.label]]]]],
    l1_key)

\* the verdict the L3 validator gives on the leaves the tree holds
VerdictOnTreeLeaves(l1_key, l2_key) ==
  validate_l3_leaves(
    [k \in {l1_key} |->
       [label |-> l1_key,
        L2 |-> << [key |-> l2_key,
                   val |-> [label |-> l2_key,
                            L3 |-> LeafDict(TreeLeavesOf(l1_key, l2_key))]] >>]],
    l1_key, l2_key)

\* the exhausted scopes of the returned tree keep their last content and the
\* issues computed on it; OnlyNonEmpty restricts this to scopes whose last
\* content is not empty
ExhaustedRetained(OnlyNonEmpty) ==
  /\ \A k \in L1Keys :
       (~l2_validation.l1_results[k].is_mece
          /\ (OnlyNonEmpty => L2Content(k)[2] # << >>)) =>
         /\ KeysAndLabels(TreeBranchesOf(k)) = KeysAndLabels(L2Content(k)[2])
         /\ l2_validation.l1_results[k] = VerdictOnTreeBranches(k)
  /\ \A i \in 1..Len(l3_validation) :
       \A k \in DOMAIN l3_validation[i].val.l2_results :
         LET l1_key == l3_validation[i].key
         IN  (~l3_validation[i].val.l2_results[k].is_mece
                /\ (OnlyNonEmpty => BatchedLeaves(l1_key, k) # << >>)) =>
               /\ TreeLeavesOf(l1_key, k) = BatchedLeaves(l1_key, k)
               /\ l3_validation[i].val.l2_results[k] = VerdictOnTreeLeaves(l1_key, k)

MaxEdits == 1

\* every variable of generate_hypothesis_tree but the memory
idle_vars == << pc, max_attempts, l1_categories, l2_vars, temp_tree, failed_keys, attempt,
                round, initial_failed, l3_vars, individual, all_passed, tree, oracle_calls,
                regenerations, last_call, oracle_mode, faults, store_vars >>

\* no generate_hypothesis_tree request is running
ControllerIdle ==
  /\ pc = "idle"
  /\ max_attempts = DefaultMaxAttempts
  /\ l1_categories = << >>
  /\ l2_branches = << >>
  /\ l2_validation = << >>
  /\ temp_tree = << >>
  /\ failed_keys = << >>
  /\ attempt = 0
  /\ round = << >>
  /\ initial_failed = { }
  /\ l1_index = 0
  /\ l3_leaves = << >>
  /\ validation_results = << >>
  /\ batched_l3_leaves = << >>
  /\ l3_validation = << >>
  /\ individual = << >>
  /\ all_passed = FALSE
  /\ tree = << >>
  /\ oracle_calls = << >>
  /\ regenerations = << >>
  /\ last_call = NoCall
  /\ oracle_mode = "idle"
  /\ faults = 0

\* the structures handed to the validators: the fixtures of
\* test_mece_validator.py, and topics with generated branches and leaves
Structures ==
  LET Topic(key, label, branches) ==
        [key |-> key, val |-> [label |-> label, L2 |-> branches]]
      Bare(key, label) == [key |-> key, val |-> [label |-> label]]
      Branch(key, label, leaves) ==
        [key |-> key, val |-> [label |-> label, L3 |-> LeafDict(leaves)]]
      Blank(label) == [GoodLeaf(label) EXCEPT !["data_source"] = ""]
      Unlabelled  == [f \in {"question", "metric_type", "target", "data_source"} |->
                        GoodLeaf("")[f]]
  IN  { [problem |-> "Should we scale?",
         tree |-> << Topic("DESIRABILITY", "Desirability",
                           << Branch("DEMAND", "Resident Demand", GoodL3),
                              Branch("ADOPTION", "Staff Adoption", MissingL3) >>),
                     Topic("FEASIBILITY", "Feasibility", GoodL2),
                     Bare("VIABILITY", "Viability") >>],
        [problem |-> "Test",
         tree |-> << Topic("COST", "Cost Analysis",
                           << Branch("DRIVERS", "Cost Drivers",
                                     << GoodLeaf("Cost Savings"), GoodLeaf("Budget Variance") >>),
                              Branch("RETURNS", "Financial Returns",
                                     << GoodLeaf("Payback Period"), Blank("Capital Outlay") >>) >>),
                     Topic("FINANCIAL", "Financial Impact", EmptyL2) >>],
        [problem |-> "Test",
         tree |-> << Bare("BUDGET", "Budget Plan"),
                     Topic("COST", "Cost Review",
                           << Branch("PRICING_DESIGN", "Pricing Model Design", OverlapL3),
                              Branch("PRICING_REVIEW", "Pricing Model Review", EmptyL3) >>) >>],
        [problem |-> "Should we enter healthcare market?",
         tree |-> << Topic("MARKET", "Market Size",
                           << Branch("SEGMENTS", "Pricing Strategy",
                                     << GoodLeaf("Overall Satisfaction"),
                                        GoodLeaf("Churn Rate") >>),
                              Branch("ROLLOUT", "Rollout Process", GoodL3),
                              Branch("SENTIMENT", "Customer Sentiment",
                                     << GoodLeaf("Overall Satisfaction"),
                                        GoodLeaf("General Sentiment") >>) >>) >>],
        [problem |-> "Test",
         tree |-> << Bare("STRATEGIC", "Strategic Vision"),
                     Bare("DEPLOYMENT", "Deployment Details") >>],
        [problem |-> "Test",
         tree |-> << Topic("RATE", "Market Growth Rate",
                           << [key |-> "UPTAKE",
                               val |-> [label |-> "Uptake",
                                        L3 |-> << [key |-> "L3_001", val |-> Unlabelled],
                                                  [key |-> "L3_002",
                                                   val |-> [GoodLeaf("") EXCEPT
                                                              !["target"] = ""]] >>]] >>),
                     Bare("DRIVERS", "Market Growth Drivers") >>],
        [problem |-> "Test",
         tree |-> << Bare("H1", "Hypothesis 1 Cost"),
                     Bare("H2", "Hypothesis 2 Budget") >>],
        [problem |-> "Should we enter healthcare market?", tree |-> << >>] }

\* faulty variant: every key indexes the data of the last topic
MappingShared(d) == [k \in DictKeys(d) |-> d[Len(d)].val]

\* the tree as the branch and leaf validators index it: tree[l1_key]
Mapping(d) == [k \in DictKeys(d) |-> DictGet(d, k).val]

\* the sibling set a call decides on: the topics' labels and the problem
\* text, a topic's branches and their labels, a branch's leaves
ScopeOf(s, fn, l1_key, l2_key) ==
  LET labels(d) == [i \in 1..Len(d) |-> [key |-> d[i].key, label |-> d[i].val["label"]]]
      known1    == l1_key \in DictKeys(s.tree)
      branches  == IF known1 THEN Get(DictGet(s.tree, l1_key).val, "L2", << >>) ELSE << >>
      known2    == l2_key \in DictKeys(branches)
  IN  IF fn = "validate_mece_structure"
      THEN [problem |-> s.problem, children |-> labels(s.tree)]
      ELSE IF fn = "validate_l2_branches"
      THEN [exists |-> known1, children |-> labels(branches)]
      ELSE [exists |-> known1 /\ known2,
            children |-> IF known2 THEN Get(DictGet(branches, l2_key).val, "L3", << >>)
                         ELSE << >>]

\* a validator call on the structure, with what it returned; n is the number
\* of replacements made before the call
Validation(s, fn, l1_key, l2_key, n) ==
  [fn |-> fn, l1_key |-> l1_key, l2_key |-> l2_key, after |-> n,
   scope  |-> ScopeOf(s, fn, l1_key, l2_key),
   result |-> IF fn = "validate_mece_structure" THEN validate_mece_structure(s)
              ELSE IF fn = "validate_l2_branches"
              THEN validate_l2_branches(Mapping(s.tree), l1_key)
              ELSE validate_l3_leaves(Mapping(s.tree), l1_key, l2_key)]

ValidatorInit ==
  /\ ControllerIdle
  /\ memory = << >>
  /\ calls = << >>
  /\ structure \in Structures
  /\ first_call = NoValidation
  /\ latest_call = NoValidation
  /\ edits = 0
  /\ StoreIdle

Validate(fn, l1_key, l2_key) ==
  /\ latest_call' = Validation(structure, fn, l1_key, l2_key, edits)
  /\ first_call' = IF first_call = NoValidation THEN latest_call' ELSE first_call
  /\ UNCHANGED << idle_vars, memory, calls, structure, edits >>

ValidateStructure == Validate("validate_mece_structure", "", "")

ValidateBranches ==
  \E l1_key \in DictKeys(structure.tree) \cup {"L1_UNKNOWN"} :
    Validate("validate_l2_branches", l1_key, "")

ValidateLeaves ==
  \E l1_key \in DictKeys(structure.tree) \cup {"L1_UNKNOWN"} :
    \E l2_key \in DictKeys(ScopeOf(structure, "validate_l2_branches", l1_key, "").children)
                    \cup {"L2_UNKNOWN"} :
      Validate("validate_l3_leaves", l1_key, l2_key)

\* temp_tree[l1_key]["L2"] = regenerated_l2, on a topic of the structure
\* that has branches: a regenerated branch set replaces them
ReplaceBranches ==
  /\ edits < MaxEdits
  /\ \E i \in 1..Len(structure.tree) :
       /\ "L2" \in DOMAIN structure.tree[i].val
       /\ structure' = [structure EXCEPT !.tree[i].val["L2"] = OverlapL2]
  /\ edits' = edits + 1
  /\ UNCHANGED << idle_vars, memory, calls, first_call, latest_call >>

\* temp_tree[l1_key]["L2"][l2_key]["L3"] rebuilt from regenerated leaves, on
\* a branch of the structure that has leaves
ReplaceLeaves ==
  /\ edits < MaxEdits
  /\ \E i \in 1..Len(structure.tree) :
       LET branches == Get(structure.tree[i].val, "L2", << >>)
       IN  \E j \in 1..Len(branches) :
             /\ "L3" \in DOMAIN branches[j].val
             /\ structure' = [structure EXCEPT !.tree[i].val["L2"][j].val["L3"] =
                                LeafDict(MissingL3)]
  /\ edits' = edits + 1
  /\ UNCHANGED << idle_vars, memory, calls, first_call, latest_call >>

ValidatorNext ==
  \/ ValidateStructure
  \/ ValidateBranches
  \/ ValidateLeaves
  \/ ReplaceBranches
  \/ ReplaceLeaves

ValidatorSpec == ValidatorInit /\ [][ValidatorNext]_vars

(***************************************************************************)
(* Properties of the validators                                            *)
(***************************************************************************)
\* the latest call asks the same entry point about the same scope as the
\* first call, and the sibling set of that scope is what it was then
SameScopeAgain ==
  /\ first_call # NoValidation
  /\ latest_call.fn = first_call.fn
  /\ latest_call.l1_key = first_call.l1_key
  /\ latest_call.l2_key = first_call.l2_key
  /\ latest_call.scope = first_call.scope

C12_VerdictFromHardIssues ==
  LET Hard(c) ==
        \/ c.result.issues.overlaps # << >>
        \/ c.result.issues.level_inconsistencies # << >>
        \/ (c.fn = "validate_l3_leaves" /\ c.result.issues.missing_fields # << >>)
      Agrees(c) == c # NoValidation => (c.result.is_mece <=> ~Hard(c))
  IN  Agrees(first_call) /\ Agrees(latest_call)

\* a branch set with one overlap and no other issue has failed, and the
\* topic set above it passes with gap warnings
C12_Witness ==
  /\ first_call # NoValidation
  /\ first_call.fn = "validate_l2_branches"
  /\ Len(first_call.result.issues.overlaps) = 1
  /\ first_call.result.issues.level_inconsistencies = << >>
  /\ ~first_call.result.is_mece
  /\ latest_call.fn = "validate_mece_structure"
  /\ latest_call.result.warnings # << >>
  /\ latest_call.result.issues.overlaps = << >>
  /\ latest_call.result.issues.level_inconsistencies = << >>
  /\ latest_call.result.is_mece

\* C13: the result of validate_mece_structure has the fields is_mece, issues
\* and suggestions, and its issues object has the keys overlaps, gaps and
\* level_inconsistencies.
C13_ResultFields ==
  (latest_call # NoValidation /\ latest_call.fn = "validate_mece_structure") =>
    /\ {"is_mece", "issues", "suggestions"} \subseteq DOMAIN latest_call.result
    /\ {"overlaps", "gaps", "level_inconsistencies"} \subseteq DOMAIN latest_call.result.issues

\* C14: when a leaf of the validated branch lacks one of label, question,
\* metric_type, target and data_source (the field is absent or is the empty
\* string), the result of validate_l3_leaves has is_mece false and a
\* missing_fields entry that names the leaf (by its label, by its key when it
\* has no label field) and lists exactly the fields the leaf lacks; overlaps
\* and level inconsistencies are not needed for it.
C14_LeafCompleteness ==
  LET c == latest_call
      leaves == c.scope.children
      Lacking(leaf) ==
        { f \in {"label", "question", "metric_type", "target", "data_source"} :
            f \notin DOMAIN leaf \/ leaf[f] = "" }
      Named(entry) == IF "label" \in DOMAIN entry.val THEN entry.val["label"] ELSE entry.key
      Reported(entry) ==
        \E k \in 1..Len(c.result.issues.missing_fields) :
          LET issue == c.result.issues.missing_fields[k]
          IN  /\ issue.leaf = Named(entry)
              /\ { issue.fields[n] : n \in 1..Len(issue.fields) } = Lacking(entry.val)
  IN  (c # NoValidation /\ c.fn = "validate_l3_leaves" /\ c.scope.exists) =>
        \A i \in 1..Len(leaves) :
          Lacking(leaves[i].val) # { } => (Reported(leaves[i]) /\ ~c.result.is_mece)

\* a leaf set without overlap and without level inconsistency fails because
\* one of its leaves has no data_source
C14_Witness ==
  /\ latest_call # NoValidation
  /\ latest_call.fn = "validate_l3_leaves"
  /\ latest_call.scope.exists
  /\ \E i \in 1..Len(latest_call.scope.children) :
       "data_source" \notin DOMAIN latest_call.scope.children[i].val
  /\ latest_call.result.issues.overlaps = << >>
  /\ latest_call.result.issues.level_inconsistencies = << >>
  /\ latest_call.result.issues.missing_fields # << >>
  /\ ~latest_call.result.is_mece

\* C15: at topic, branch and leaf scope alike, the result for an empty
\* sibling set has is_mece false.
C15_EmptyScopeFails ==
  LET c == latest_call
      Present == c.fn = "validate_mece_structure" \/ c.scope.exists
  IN  (c # NoValidation /\ Present /\ c.scope.children = << >>) => ~c.result.is_mece

\* C16: a call that names a topic or a branch the tree does not have fails
\* without an entry in the overlaps, level_inconsistencies or missing_fields
\* list of its result.
C16_ScopeNotFoundIsNoIssue ==
  LET c == latest_call
  IN  (c # NoValidation /\ c.fn # "validate_mece_structure" /\ ~c.scope.exists) =>
        /\ ~c.result.is_mece
        /\ c.result.issues.overlaps = << >>
        /\ c.result.issues.level_inconsistencies = << >>
        /\ Get(c.result.issues, "missing_fields", << >>) = << >>

\* C17: in a topic set that matches no allowlisted pattern, every pair of
\* siblings of which one label contains a base term of the semantic map and
\* the other a related term of it has an entry in the overlaps list, and
\* is_mece is false; in a topic set that matches an allowlisted pattern the
\* overlaps list is empty.
C17_SemanticOverlap ==
  LET c == latest_call
      topics == c.scope.children
      label(i) == Lower(topics[i].label)
      Allowlisted ==
        \E pattern \in valid_patterns :
          \A i \in 1..Len(topics) : \E w \in pattern : Contains(label(i), w)
      Related(i, j) ==
        \E k \in 1..Len(overlap_keywords) :
          /\ Contains(label(i), overlap_keywords[k].base)
          /\ \E w \in overlap_keywords[k].related : Contains(label(j), w)
      Flagged(i, j) ==
        \E n \in 1..Len(c.result.issues.overlaps) :
          {c.result.issues.overlaps[n].a, c.result.issues.overlaps[n].b}
            = {topics[i].label, topics[j].label}
  IN  (c # NoValidation /\ c.fn = "validate_mece_structure") =>
        IF Allowlisted THEN c.result.issues.overlaps = << >>
        ELSE \A i, j \in 1..Len(topics) :
               (i # j /\ Related(i, j)) => (Flagged(i, j) /\ ~c.result.is_mece)

\* C18: at branch scope and at leaf scope, every pair of siblings whose
\* labels share more than one token that is not a stop word, and every pair
\* of which one label contains a base term of the semantic map and the other
\* a related term of it, has an entry in the overlaps list.
C18_UniformOverlapDetection ==
  LET c == latest_call
      siblings == c.scope.children
      shown(i) == IF c.fn = "validate_l2_branches" THEN siblings[i].label
                  ELSE Get(siblings[i].val, "label", siblings[i].key)
      stop == IF c.fn = "validate_l2_branches" THEN L2StopWords ELSE L3StopWords
      words(i) == WordSet(Lower(shown(i))) \ stop
      Shared(i, j) == Cardinality(words(i) \cap words(j)) > 1
      Related(i, j) ==
        \E k \in 1..Len(overlap_keywords) :
          /\ Contains(Lower(shown(i)), overlap_keywords[k].base)
          /\ \E w \in overlap_keywords[k].related : Contains(Lower(shown(j)), w)
      Flagged(i, j) ==
        \E n \in 1..Len(c.result.issues.overlaps) :
          {c.result.issues.overlaps[n].a, c.result.issues.overlaps[n].b}
            = {shown(i), shown(j)}
  IN  (c # NoValidation /\ c.fn # "validate_mece_structure" /\ c.scope.exists) =>
        \A i, j \in 1..Len(siblings) :
          (i # j /\ (Shared(i, j) \/ Related(i, j))) => Flagged(i, j)

(***************************************************************************)
(* The memory on its own: failures are recorded under a few keys, with a   *)
(* few validation results, and the memory is cleared, in any order.        *)
(***************************************************************************)
\* failures recorded since the memory was created or cleared
MaxRecords == 2

\* validation results as the validators return them: an overlap, an empty
\* sibling set, a leaf set with nothing but a missing field, and a result
\* without an issues object
MemoryResults ==
  { [is_mece |-> FALSE,
     issues |-> [overlaps |-> << [kind |-> "keyword", a |-> "Pricing Model Design",
                                  b |-> "Pricing Model Review",
                                  shared |-> {"pricing", "model"}] >>,
                 level_inconsistencies |-> << >>]],
    [is_mece |-> FALSE,
     issues |-> [overlaps |-> << >>,
                 level_inconsistencies |-> << [kind |-> "no_children", scope |-> "COST"] >>]],
    [is_mece |-> FALSE,
     issues |-> [overlaps |-> << >>, level_inconsistencies |-> << >>,
                 missing_fields |-> << [kind |-> "missing", leaf |-> "Staff Trust",
                                        fields |-> << "data_source" >>] >>]],
    [is_mece |-> FALSE] }

MemoryInit ==
  /\ ControllerIdle
  /\ UnitIdle
  /\ memory = << >>

MemoryRecordFailure ==
  /\ Len(calls) < MaxRecords
  /\ \E level \in {"L2", "L3"} : \E component \in {"COST", "COST.DRIVERS"} :
       \E validation_result \in MemoryResults : \E iteration \in 1..2 :
         /\ memory' = record_failure(memory, level, component, validation_result, iteration)
         /\ calls' = Append(calls, [level |-> level, component |-> component,
                                    validation_result |-> validation_result,
                                    iteration |-> iteration])
  /\ UNCHANGED << idle_vars, structure, first_call, latest_call, edits >>

MemoryClear ==
  /\ memory' = clear(memory)
  /\ calls' = << >>
  /\ UNCHANGED << idle_vars, structure, first_call, latest_call, edits >>

MemoryNext == MemoryRecordFailure \/ MemoryClear

MemorySpec == MemoryInit /\ [][MemoryNext]_vars

(***************************************************************************)
(* Properties of the memory                                                *)
(***************************************************************************)
\* C19: get_failure_count(level, scope) is the number of record_failure calls
\* made with that level and scope since the memory was created or last
\* cleared, equal results counted each time; a record_failure call changes
\* neither the count nor the feedback of any other key; after clear every
\* count is 0 and every feedback is the empty string.
C19_AppendWithoutDeduplication ==
  [][LET Keys == {"L2", "L3"} \X {"COST", "COST.DRIVERS"}
         Made(k) ==
           { i \in 1..Len(calls) : calls[i].level = k[1] /\ calls[i].component = k[2] }
         Counted ==
           \A k \in Keys : get_failure_count(memory, k[1], k[2]) = Cardinality(Made(k))
         OthersKept ==
           Len(calls') = Len(calls) + 1 =>
             \A k \in Keys :
               (k # << calls'[Len(calls')].level, calls'[Len(calls')].component >>) =>
                 /\ get_failure_count(memory', k[1], k[2])
                      = get_failure_count(memory, k[1], k[2])
                 /\ get_feedback_prompt(memory', k[1], k[2])
                      = get_feedback_prompt(memory, k[1], k[2])
         Cleared ==
           calls' = << >> =>
             \A k \in Keys : /\ get_failure_count(memory', k[1], k[2]) = 0
                             /\ get_feedback_prompt(memory', k[1], k[2]) = << >>
     IN  Counted /\ Counted' /\ OthersKept /\ Cleared]_vars

\* the same failure was recorded twice under one key and counts twice, and
\* another key still counts none
C19_Witness ==
  /\ Len(calls) = 2
  /\ calls[1] = calls[2]
  /\ get_failure_count(memory, calls[1].level, calls[1].component) = 2
  /\ calls[1].component = "COST"
  /\ get_failure_count(memory, calls[1].level, "COST.DRIVERS") = 0

\* C20: get_feedback_prompt(level, scope) is the empty string exactly when no
\* recorded failure has that level and that scope; otherwise it has one
\* block for each such record and for no other, in the order of recording,
\* with the attempt number, the overlaps and the level inconsistencies of
\* the recorded result.
C20_FeedbackRendersMatchingRecords ==
  \A level \in {"L2", "L3"} : \A component \in {"COST", "COST.DRIVERS"} :
    LET matching == SelectSeq(calls, LAMBDA c : c.level = level /\ c.component = component)
        feedback == get_feedback_prompt(memory, level, component)
        issues(c) == Get(c.validation_result, "issues", << >>)
    IN  /\ (feedback = << >>) <=> (matching = << >>)
        /\ Len(feedback) = Len(matching)
        /\ \A i \in 1..Len(matching) :
             /\ feedback[i].iteration = matching[i].iteration
             /\ feedback[i].overlaps = Get(issues(matching[i]), "overlaps", << >>)
             /\ feedback[i].inconsistencies
                  = Get(issues(matching[i]), "level_inconsistencies", << >>)

\* failures of two scopes of one level are in the memory: the feedback of
\* the one renders its record and nothing of the other, and the feedback of
\* an unrecorded key is empty
C20_Witness ==
  /\ Len(calls) = 2
  /\ calls[1].level = "L3" /\ calls[2].level = "L3"
  /\ calls[1].component = "COST.DRIVERS"
  /\ calls[2].component = "COST"
  /\ calls[1].validation_result # calls[2].validation_result
  /\ Len(get_feedback_prompt(memory, "L3", "COST.DRIVERS")) = 1
  /\ get_feedback_prompt(memory, "L2", "COST") = << >>

C22_LeafFields ==
  pc = "done" =>
    \A l1_key \in DictKeys(tree.tree) : \A l2_key \in DictKeys(TreeBranchesOf(l1_key)) :
      LET leaves == TreeLeavesOf(l1_key, l2_key)
      IN  \A i \in 1..Len(leaves) :
            /\ {"id", "label", "question", "metric_type", "target", "data_source", "status"}
                 \subseteq DOMAIN leaves[i]
            /\ leaves[i]["metric_type"] \in {"quantitative", "qualitative", "binary"}

(***************************************************************************)
(* Versioned persistence (tools/persistence.py), on its own: one project   *)
(* directory, starting empty, as a function from the names of its files to *)
(* the saved data; the timestamp of the metadata is left out.  A missing   *)
(* directory and a                                                         *)
(* directory without matching files both end in FileNotFoundError (load,   *)
(* delete) or 0 (get_latest_version) and are not told apart.               *)
(***************************************************************************)
\* save_analysis is called at most MaxSaves times with a valid type
MaxSaves == 10
\* delete_analysis removes at most MaxDeletes files
MaxDeletes == 1

\* f"{n}" for n < 100
Decimal(n) == IF n < 10 THEN Digit(n) ELSE Digit(n \div 10) \o Digit(n % 10)

\* int(s) on a string of decimal digits
RECURSIVE int(_)
int(s) ==
  IF s = "" THEN 0
  ELSE 10 * int(SubSeq(s, 1, Len(s) - 1))
         + (PositionIn("0123456789", SubSeq(s, Len(s), Len(s))) - 1)

\* the characters of the file names in code point order
CodePoints == ".0123456789_abcdefghijklmnopqrstuvwxyz"

\* a < b on two str: the order sorted() puts the paths of one directory in
RECURSIVE StrLess(_, _)
StrLess(a, b) ==
  IF b = "" THEN FALSE
  ELSE IF a = "" THEN TRUE
  ELSE IF Head(a) = Head(b) THEN StrLess(Tail(a), Tail(b))
  ELSE PositionIn(CodePoints, Head(a)) < PositionIn(CodePoints, Head(b))

valid_types ==
  << "hypothesis_tree", "matrix_hypothesis_prioritization", "matrix_risk_register",
     "matrix_task_prioritization", "matrix_measurement_priorities", "research" >>

\* f"{analysis_type}_v{version}.json"
Filename(analysis_type, version) == analysis_type \o "_v" \o Decimal(version) \o ".json"

\* project_dir.glob(f"{analysis_type}_v*.json")
glob(dir, analysis_type) ==
  LET prefix == analysis_type \o "_v"
  IN  { name \in DOMAIN dir :
          /\ Len(name) >= Len(prefix) + 5
          /\ SubSeq(name, 1, Len(prefix)) = prefix
          /\ SubSeq(name, Len(name) - 4, Len(name)) = ".json" }

\* filepath.stem.rsplit("_v", 1)[1] of a path glob returned
VersionStr(name, analysis_type) == SubSeq(name, Len(analysis_type) + 3, Len(name) - 5)

FileNotFoundError == [raised |-> "FileNotFoundError"]
ValueError == [raised |-> "ValueError"]

\* save_analysis: the directory afterwards and the returned dict
save_analysis(dir, analysis_type, content) ==
  IF \A i \in 1..Len(valid_types) : valid_types[i] # analysis_type
  THEN [files |-> dir, result |-> ValueError]
  ELSE LET existing_files == glob(dir, analysis_type)
           version  == Cardinality(existing_files) + 1
           filename == Filename(analysis_type, version)
           save_data == [metadata |-> [analysis_type |-> analysis_type, version |-> version],
                         content |-> content]
       IN  [files  |-> [name \in DOMAIN dir \cup {filename} |->
                          IF name = filename THEN save_data ELSE dir[name]],
            result |-> [filepath |-> filename, version |-> version]]

\* load_analysis with an analysis type; version is << >> (None) or << n >>
load_analysis(dir, analysis_type, version) ==
  IF version # << >>
  THEN LET filename == Filename(analysis_type, version[1])
       IN  IF filename \in DOMAIN dir THEN dir[filename] ELSE FileNotFoundError
  ELSE LET matching_files == glob(dir, analysis_type)
       IN  IF matching_files = { } THEN FileNotFoundError
           ELSE \* sorted(..., reverse=True)[0]
                dir[CHOOSE first \in matching_files :
                      \A other \in matching_files : ~StrLess(first, other)]

\* delete_analysis: the directory afterwards and the returned dict
delete_analysis(dir, analysis_type, version) ==
  LET filename == Filename(analysis_type, version)
  IN  IF filename \notin DOMAIN dir
      THEN [files |-> dir, result |-> FileNotFoundError]
      ELSE [files  |-> [name \in DOMAIN dir \ {filename} |-> dir[name]],
            result |-> [deleted |-> TRUE, filepath |-> filename]]

\* get_latest_version
get_latest_version(dir, analysis_type) ==
  LET matching_files == glob(dir, analysis_type)
      versions == { int(VersionStr(name, analysis_type)) : name \in matching_files }
  IN  IF versions = { } THEN 0
      ELSE CHOOSE v \in versions : \A w \in versions : w <= v

\* the analysis types the callers pass; "notes" is not a valid type
AnalysisTypes == { "hypothesis_tree", "research" }

engine_vars == << pc, max_attempts, l1_categories, l2_vars, loop_vars, initial_failed, l3_vars,
                  individual, all_passed, tree, oracle_calls, regenerations, last_call,
                  oracle_mode, faults, structure, first_call, latest_call, edits, calls >>

PersistenceInit == ControllerIdle /\ UnitIdle /\ memory = << >>

\* the save calls made so far with an analysis type
Saves(ops, analysis_type) == Get(ops.saves, analysis_type, 0)

\* every call saves content that has not been saved under its type before
PersistenceSave ==
  /\ Saves(store_ops, "hypothesis_tree") + Saves(store_ops, "research") < MaxSaves
  /\ \E analysis_type \in AnalysisTypes \cup {"notes"} :
       LET content == [v |-> Saves(store_ops, analysis_type) + 1]
           done    == save_analysis(files, analysis_type, content)
       IN  /\ files' = done.files
           /\ store_call' = [fn |-> "save_analysis", analysis_type |-> analysis_type,
                             content |-> content, result |-> done.result]
           /\ store_ops' = IF done.result = ValueError THEN store_ops
                           ELSE [store_ops EXCEPT !.saves =
                                  [t \in DOMAIN @ \cup {analysis_type} |->
                                     IF t = analysis_type THEN content.v ELSE @[t]]]
  /\ UNCHANGED engine_vars

PersistenceDelete ==
  /\ store_ops.deletes < MaxDeletes
  /\ \E analysis_type \in AnalysisTypes : \E version \in 1..MaxSaves :
       LET done == delete_analysis(files, analysis_type, version)
       IN  /\ done.result # FileNotFoundError
           /\ files' = done.files
           /\ store_call' = [fn |-> "delete_analysis", analysis_type |-> analysis_type,
                             version |-> version, result |-> done.result]
           /\ store_ops' = [store_ops EXCEPT !.deletes = @ + 1]
  /\ UNCHANGED engine_vars

PersistenceLoad ==
  /\ \E analysis_type \in AnalysisTypes : \E version \in { << >>, << 1 >> } :
       store_call' = [fn |-> "load_analysis", analysis_type |-> analysis_type,
                      version |-> version,
                      result |-> load_analysis(files, analysis_type, version)]
  /\ UNCHANGED << engine_vars, files, store_ops >>

PersistenceGetLatest ==
  /\ \E analysis_type \in AnalysisTypes :
       store_call' = [fn |-> "get_latest_version", analysis_type |-> analysis_type,
                      result |-> get_latest_version(files, analysis_type)]
  /\ UNCHANGED << engine_vars, files, store_ops >>

PersistenceNext ==
  \/ PersistenceSave
  \/ PersistenceDelete
  \/ PersistenceLoad
  \/ PersistenceGetLatest

PersistenceSpec == PersistenceInit /\ [][PersistenceNext]_vars

\* the version numbers stored for an analysis type
StoredVersions(dir, analysis_type) ==
  { dir[name].metadata.version : name \in glob(dir, analysis_type) }

\* C23: version numbers increment: each save_analysis that stores content
\* creates a version whose number is greater than every version of that
\* type existing before the call, writes no file that existed before, and
\* leaves every stored version loadable with the content it had.
C23_VersionsIncrement ==
  [][store_ops'.saves # store_ops.saves =>
       LET analysis_type == store_call'.analysis_type
           version       == store_call'.result.version
       IN  /\ \A w \in StoredVersions(files, analysis_type) : version > w
           /\ Filename(analysis_type, version) \notin DOMAIN files
           /\ \A t \in AnalysisTypes : \A w \in StoredVersions(files, t) :
                load_analysis(files', t, << w >>) = load_analysis(files, t, << w >>)]_vars

\* C24: load_analysis with an analysis type and no version returns the
\* stored version with the highest number, the number get_latest_version
\* reports.
C24_LoadsLatestVersion ==
  (/\ store_call.fn = "load_analysis"
   /\ store_call.version = << >>
   /\ StoredVersions(files, store_call.analysis_type) # { })
    => /\ store_call.result # FileNotFoundError
       /\ store_call.result.metadata.version
            = get_latest_version(files, store_call.analysis_type)
       /\ \A w \in StoredVersions(files, store_call.analysis_type) :
            w <= store_call.result.metadata.version

(***************************************************************************)
(* Feedback and failure records in the controllers                         *)
(***************************************************************************)
\* C25: a regeneration is attempt n >= 2 of its scope; the feedback it hands
\* to the oracle is rendered from the memory as it is before the call and
\* has one block for each of the n-1 records of that level and scope, those
\* of attempts 1..n-1 in this order, and nothing of another scope; the
\* memory gets a record (of attempt n, for that scope, at the end) exactly
\* when the re-validation of the regenerated content fails, and no step
\* other than a validation writes a record.
C25_FeedbackFromMemory ==
  [][LET l2_call == last_call'.fn = "generate_single_l1_l2_branches"
         level   == IF l2_call THEN "L2" ELSE "L3"
         scope   == last_call'.scope
         key     == Head(IF round = << >> THEN failed_keys ELSE round)
         before  == SelectSeq(memory, LAMBDA f : f.level = level /\ f.component = scope)
         feedback == last_call'.feedback
         n       == attempt
     IN  IF regenerations' # regenerations
         THEN /\ n >= 2
              /\ Len(before) = n - 1
              /\ Len(feedback) = n - 1
              /\ \A i \in 1..(n - 1) :
                   /\ before[i].iteration = i
                   /\ feedback[i] = [iteration |-> i, overlaps |-> before[i].overlaps,
                                     inconsistencies |-> before[i].inconsistencies]
              /\ IF pc' = "raised" THEN memory' = memory
                 ELSE LET result == IF l2_call THEN l2_validation'.l1_results[key]
                                    ELSE validation_results'.l2_results[key]
                      IN  IF result.is_mece THEN memory' = memory
                          ELSE /\ Len(memory') = Len(memory) + 1
                               /\ SubSeq(memory', 1, Len(memory)) = memory
                               /\ memory'[Len(memory')].iteration = n
                               /\ memory'[Len(memory')].level = level
                               /\ memory'[Len(memory')].component = scope
         ELSE memory' # memory => pc \in {"start", "l3_start"}]_vars

\* a third attempt: its feedback has the blocks of attempts 1 and 2 of its
\* scope, while the memory also holds a record of another scope
C25_Witness ==
  /\ last_call.fn \in {"generate_single_l1_l2_branches", "generate_single_l2_l3_leaves"}
  /\ Len(last_call.feedback) = 2
  /\ \E i \in 1..Len(memory) : memory[i].component # last_call.scope

(***************************************************************************)
(* The abstraction-level rule and the order of the siblings                *)
(***************************************************************************)
\* the abstraction-level rule on the latest validator call, for a scope that
\* exists and has children.  At topic and branch scope a label is strategic
\* or tactical by the keywords it contains; at leaf scope it is abstract if
\* it contains an abstract indicator and concrete otherwise.  With
\* leaf_rule_is_mixing a leaf scope is treated as the other scopes are: one
\* class is fine, both classes are an inconsistency; without it a leaf scope
\* is fine only when no label is abstract.
LevelRuleHolds(leaf_rule_is_mixing) ==
  LET c        == latest_call
      at_leaf  == c.fn = "validate_l3_leaves"
      children == c.scope.children
      n        == Len(children)
      label(i) == IF at_leaf THEN Lower(Get(children[i].val, "label", ""))
                  ELSE Lower(children[i].label)
      A == IF at_leaf THEN abstract_indicators
           ELSE IF c.fn = "validate_l2_branches" THEN strategic_indicators
           ELSE L1StrategicKeywords
      B == IF at_leaf THEN { }
           ELSE IF c.fn = "validate_l2_branches" THEN tactical_indicators
           ELSE L1TacticalKeywords
      Has(i, words) == \E w \in words : Contains(label(i), w)
      InA(i) == Has(i, A) /\ ~Has(i, B)
      InB(i) == IF at_leaf THEN ~Has(i, A) ELSE Has(i, B) /\ ~Has(i, A)
      ceiling == IF c.fn = "validate_mece_structure" THEN MaxL1Categories
                 ELSE IF at_leaf THEN MaxL3Leaves ELSE MaxL2Branches
      levels == c.result.issues.level_inconsistencies
      about_classes == SelectSeq(levels, LAMBDA e : e.kind \in {"mixed_levels", "abstract"})
      SingleClass == IF at_leaf /\ ~leaf_rule_is_mixing THEN \A i \in 1..n : InB(i)
                     ELSE (\A i \in 1..n : InA(i)) \/ (\A i \in 1..n : InB(i))
      BothClasses == IF at_leaf /\ ~leaf_rule_is_mixing THEN \E i \in 1..n : InA(i)
                     ELSE IF at_leaf THEN (\E i \in 1..n : InA(i)) /\ (\E i \in 1..n : InB(i))
                     ELSE (\E i \in 1..n : Has(i, A)) /\ (\E i \in 1..n : Has(i, B))
  IN  (/\ c # NoValidation
       /\ c.fn = "validate_mece_structure" \/ c.scope.exists
       /\ n >= 1)
        => /\ (SingleClass /\ n <= ceiling) => levels = << >>
           /\ BothClasses => Len(about_classes) = 1

\* C26 as stated: a scope whose labels are all of one class (all strategic
\* or all tactical at topic and branch scope, all abstract or all concrete at
\* leaf scope) and whose sibling count is within the ceiling yields no level
\* inconsistency; a scope with labels of both classes yields one.
C26_Original == LevelRuleHolds(TRUE)

\* C26 amended: at topic and branch scope, labels all strategic or all
\* tactical and a sibling count within the ceiling yield no level
\* inconsistency, and labels of both classes yield one; at leaf scope, a
\* non-empty leaf set without an abstract label and within the ceiling
\* yields none, and a leaf set with an abstract label yields one, also when
\* every label is abstract.
C26_LevelRule == LevelRuleHolds(FALSE)

\* a leaf scope whose labels are all abstract has been validated and got its
\* inconsistency; a topic scope with a strategic and a tactical label too
C26_Witness ==
  LET c == latest_call
      f == first_call
  IN  /\ c # NoValidation /\ c.fn = "validate_l3_leaves" /\ c.scope.exists
      /\ Len(c.scope.children) = 2
      /\ \A i \in 1..2 : \E w \in abstract_indicators :
           Contains(Lower(Get(c.scope.children[i].val, "label", "")), w)
      /\ Len(c.result.issues.level_inconsistencies) = 1
      /\ f.fn = "validate_mece_structure"
      /\ f.result.issues.level_inconsistencies = << >>

\* C27: the verdict of a scope does not depend on the order of its siblings:
\* for the scope of the latest validator call, still as it was validated,
\* the same validator on every reordering of the siblings returns the same
\* is_mece and flags the same unordered pairs of labels as overlapping.
C27_OrderIndependent ==
  LET c == latest_call
      s == structure
      Reordered(d, p) == [i \in 1..Len(d) |-> d[p[i]]]
      At(d, k) == CHOOSE i \in 1..Len(d) : d[i].key = k
      i1 == At(s.tree, c.l1_key)
      i2 == At(s.tree[i1].val["L2"], c.l2_key)
      Again(p) ==
        IF c.fn = "validate_mece_structure"
        THEN validate_mece_structure([s EXCEPT !.tree = Reordered(@, p)])
        ELSE IF c.fn = "validate_l2_branches"
        THEN validate_l2_branches(
               Mapping([s.tree EXCEPT ![i1].val["L2"] = Reordered(@, p)]), c.l1_key)
        ELSE validate_l3_leaves(
               Mapping([s.tree EXCEPT ![i1].val["L2"][i2].val["L3"] = Reordered(@, p)]),
               c.l1_key, c.l2_key)
      Pairs(r) == { {r.issues.overlaps[n].a, r.issues.overlaps[n].b} :
                      n \in { k \in 1..Len(r.issues.overlaps) :
                                "a" \in DOMAIN r.issues.overlaps[k] } }
  IN  (/\ c # NoValidation
       /\ c.after = edits
       /\ c.fn = "validate_mece_structure" \/ c.scope.exists
       /\ Len(c.scope.children) >= 2)
        => \A p \in Permutations(1..Len(c.scope.children)) :
             /\ Again(p).is_mece = c.result.is_mece
             /\ Pairs(Again(p)) = Pairs(c.result)

(***************************************************************************)
(* What the L3 controller validates and what it keeps                      *)
(***************************************************************************)
\* C28: in the L3 controller the leaves validated for a branch (the L3 dict
\* of the temporary tree) are exactly the leaves of the list retained for
\* that branch, none merged or dropped; and in the returned tree no branch
\* with a leaf verdict is_mece = true has two leaves with the same label or
\* a leaf without one of the required fields.
C28_ValidatedIsRetained ==
  /\ pc = "l3_loop" =>
       LET branches == temp_tree[l1_categories[l1_index].key].L2
       IN  \A i \in 1..Len(branches) :
             LET validated == [j \in 1..Len(branches[i].val.L3) |-> branches[i].val.L3[j].val]
                 retained  == IF branches[i].key \in DictKeys(l3_leaves)
                              THEN DictGet(l3_leaves, branches[i].key).val ELSE << >>
             IN  validated = retained
  /\ pc = "done" =>
       \A t \in 1..Len(l3_validation) :
         \A l2_key \in DOMAIN l3_validation[t].val.l2_results :
           l3_validation[t].val.l2_results[l2_key].is_mece =>
             LET leaves == TreeLeavesOf(l3_validation[t].key, l2_key)
             IN  /\ \A i, j \in 1..Len(leaves) :
                      Get(leaves[i], "label", "") = Get(leaves[j], "label", "") => i = j
                 /\ \A i \in 1..Len(leaves) : \A n \in 1..Len(required_fields) :
                      Get(leaves[i], required_fields[n], "") # ""

\* C29: every hard issue that made a scope fail is in the feedback of the
\* next attempt for that scope: when a scope is regenerated, each overlap,
\* level inconsistency and missing field of its latest failed result is
\* listed in the last block of the feedback, and that block lists at least
\* one issue.
C29_FeedbackListsHardIssues ==
  [][regenerations' # regenerations =>
       LET key      == Head(IF round = << >> THEN failed_keys ELSE round)
           previous == IF last_call'.fn = "generate_single_l1_l2_branches"
                       THEN l2_validation.l1_results[key]
                       ELSE validation_results.l2_results[key]
           feedback == last_call'.feedback
           block    == feedback[Len(feedback)]
           Listed(issue) ==
             \/ \E i \in 1..Len(block.overlaps) : block.overlaps[i] = issue
             \/ \E i \in 1..Len(block.inconsistencies) : block.inconsistencies[i] = issue
           All(issues) == \A i \in 1..Len(issues) : Listed(issues[i])
       IN  /\ feedback # << >>
           /\ All(previous.issues.overlaps)
           /\ All(previous.issues.level_inconsistencies)
           /\ All(Get(previous.issues, "missing_fields", << >>))
           /\ block.overlaps # << >> \/ block.inconsistencies # << >>]_vars

====
